---- MODULE Spec2Model ----
(***************************************************************************)
(* GroveDB: forest of nested Merks, its get / delete operations and the     *)
(* reference resolver, modelled as a state machine over the storage rows.   *)
(*                                                                          *)
(* A storage holds, for every subtree path (prefix), the node rows of the   *)
(* Merk at that path.  A row carries the element, the value_hash recorded   *)
(* for it, and whether the row is linked from the Merk's current root       *)
(* (live) or is a leftover row no root key leads to.                        *)
(***************************************************************************)
EXTENDS Integers, Sequences, FiniteSets, TLC

\* ---------------------------------------------------------------- bounds
\* longest subtree path (number of segments) of an open Merk
MaxDepth == 3
\* mutating calls, made after the forest has been built, whose writes stand
MaxOps == 1
\* a storage failure is injected after at most this many successful writes
MaxFault == 2
\* longest chain of Reference elements in the reference scenarios
MaxChain == 12

\* ---------------------------------------------------------------- keys, paths
\* keys in ascending byte order, as the raw iterator yields them
KeyOrder == <<"key1", "key2">>
Keys == {KeyOrder[i] : i \in DOMAIN KeyOrder}
K1 == KeyOrder[1]
K2 == KeyOrder[2]

Paths == UNION {[1..n -> Keys] : n \in 0..MaxDepth}

Front(p) == SubSeq(p, 1, Len(p) - 1)
Last(p) == p[Len(p)]
IsPrefix(p, q) == Len(p) <= Len(q) /\ SubSeq(q, 1, Len(p)) = p

\* ---------------------------------------------------------------- elements
NoElement == [t |-> "None", v |-> <<>>, f |-> <<>>]
Item(v, f) == [t |-> "Item", v |-> <<v>>, f |-> f]
Tree(f) == [t |-> "Tree", v |-> <<>>, f |-> f]
SumTree(f) == [t |-> "SumTree", v |-> <<>>, f |-> f]
Reference(target) == [t |-> "Reference", v |-> target, f |-> <<>>]

NoFlags == <<>>
DogFlags == <<"dog">>

\* the pattern `Element::Tree(..)` of delete.rs
IsTree(el) == el.t = "Tree"
\* the pattern `Element::Tree(..) | Element::SumTree(..)` of check_subtree_exists
IsSubtreeElement(el) == el.t \in {"Tree", "SumTree"}

\* ---------------------------------------------------------------- storage
NULL_HASH == {}
NoRow == [el |-> NoElement, vh |-> NULL_HASH, live |-> FALSE]
EmptyStore == [p \in Paths |-> [k \in Keys |-> NoRow]]

\* rows the raw iterator of the storage context at p yields
RawKeys(s, p) == {k \in Keys : s[p][k].el.t # "None"}
\* keys reachable from the root key of the Merk at p
MerkKeys(s, p) == {k \in Keys : s[p][k].el.t # "None" /\ s[p][k].live}

\* value_hash = H(value bytes) of a non-tree element
value_hash(el) == {<<"", el, NULL_HASH>>}
\* root hash of the Merk at p: commits to every (key, value, value_hash) it links
root_hash(s, p) == {<<k, s[p][k].el, s[p][k].vh>> : k \in MerkKeys(s, p)}

\* ---------------------------------------------------------------- results
Ok(el) == [ok |-> TRUE, err |-> "", el |-> el]
Err(e) == [ok |-> FALSE, err |-> e, el |-> NoElement]

\* opening the Merk at p reads the element naming it from the parent's storage
open_merk_at_path(s, p) ==
  IF p = <<>> THEN "Ok"
  ELSE LET row == s[Front(p)][Last(p)] IN
       IF row.el.t = "None" THEN "PathNotFound"
       ELSE IF IsSubtreeElement(row.el) THEN "Ok"
       ELSE "CorruptedPath"

\* Element::get through the Merk at p
ElementGet(s, p, k) ==
  IF k \in MerkKeys(s, p) THEN Ok(s[p][k].el) ELSE Err("PathKeyNotFound")

get_raw(s, p, k) ==
  LET o == open_merk_at_path(s, p) IN
  IF o # "Ok"
  THEN Err(IF o = "InvalidParentLayerPath" THEN "PathParentLayerNotFound" ELSE o)
  ELSE ElementGet(s, p, k)

MAX_REFERENCE_HOPS == 10

CorruptedReference(e) ==
  CASE e = "PathParentLayerNotFound" -> "CorruptedReferencePathParentLayerNotFound"
    [] e = "PathKeyNotFound" -> "CorruptedReferencePathKeyNotFound"
    [] e = "PathNotFound" -> "CorruptedReferencePathNotFound"
    [] OTHER -> e

\* r: the result, lookups: the elements read
Followed(r, lookups) == [r |-> r, lookups |-> lookups]

RECURSIVE FollowLoop(_, _, _, _, _)
FollowLoop(s, path, hops_left, visited, lookups) ==
  IF ~(hops_left > 0) THEN Followed(Err("ReferenceLimit"), lookups)
  ELSE IF path \in visited THEN Followed(Err("CyclicReference"), lookups)
  ELSE IF path = <<>> THEN Followed(Err("CorruptedPath"), lookups)
  ELSE LET cur == get_raw(s, Front(path), Last(path)) IN
       IF ~cur.ok THEN Followed(Err(CorruptedReference(cur.err)), lookups + 1)
       ELSE IF cur.el.t = "Reference"
       THEN FollowLoop(s, cur.el.v, hops_left - 1, visited \cup {path}, lookups + 1)
       ELSE Followed(Ok(cur.el), lookups + 1)

\* the loop with one hop too many
follow_reference_extra_hop(s, path) == FollowLoop(s, path, MAX_REFERENCE_HOPS + 1, {}, 0)

\* the loop without its visited set
RECURSIVE FollowLoopUnvisited(_, _, _, _)
FollowLoopUnvisited(s, path, hops_left, lookups) ==
  IF ~(hops_left > 0) THEN Followed(Err("ReferenceLimit"), lookups)
  ELSE IF path = <<>> THEN Followed(Err("CorruptedPath"), lookups)
  ELSE LET cur == get_raw(s, Front(path), Last(path)) IN
       IF ~cur.ok THEN Followed(Err(CorruptedReference(cur.err)), lookups + 1)
       ELSE IF cur.el.t = "Reference"
       THEN FollowLoopUnvisited(s, cur.el.v, hops_left - 1, lookups + 1)
       ELSE Followed(Ok(cur.el), lookups + 1)
follow_reference_unvisited(s, path) == FollowLoopUnvisited(s, path, MAX_REFERENCE_HOPS, 0)

follow_reference(s, path) == FollowLoop(s, path, MAX_REFERENCE_HOPS, {}, 0)

\* get that hands back the stored element without resolving it
get_unresolved(s, p, k) == get_raw(s, p, k)

get(s, p, k) ==
  LET first == get_raw(s, p, k) IN
  IF ~first.ok THEN first
  ELSE IF first.el.t = "Reference" THEN follow_reference(s, first.el.v).r
  ELSE first

check_subtree_exists(s, p, error) ==
  IF Len(p) = 0 THEN "Ok"
  ELSE LET o == open_merk_at_path(s, Front(p)) IN
       IF o # "Ok" THEN o
       ELSE LET e == ElementGet(s, Front(p), Last(p)) IN
            IF e.ok /\ IsSubtreeElement(e.el) THEN "Ok"
            ELSE IF e.ok \/ e.err = "PathKeyNotFound" THEN error
            ELSE e.err

check_subtree_exists_path_not_found(s, p) == check_subtree_exists(s, p, "PathNotFound")
check_subtree_exists_invalid_path(s, p) == check_subtree_exists(s, p, "InvalidPath")

\* ---------------------------------------------------------------- storage cost
varint_len(n) == IF n < 128 THEN 1 ELSE 2

ZeroCost == [added |-> 0, replaced |-> 0, removed |-> 0]
AddCost(a, b) == [added |-> a.added + b.added,
                  replaced |-> a.replaced + b.replaced,
                  removed |-> a.removed + b.removed]

\* 32-byte prefix, the key, and the length prefix of the prefixed key
KeyFootprint(k) == 32 + Len(k) + varint_len(32 + Len(k))
\* key bytes, child hash, key length byte, two child heights
ParentHook(k) == Len(k) + 32 + 1 + 2

FlagsLen(el) == IF el.f = <<>> THEN 0 ELSE varint_len(Len(el.f[1])) + Len(el.f[1])

\* flags option tag, variant tag, body
SerializedLen(el) ==
  CASE el.t = "Item" -> 1 + 1 + varint_len(Len(el.v[1])) + Len(el.v[1]) + FlagsLen(el)
    [] el.t = "Tree" -> 1 + 1 + 1 + FlagsLen(el)
    [] el.t = "SumTree" -> 1 + 1 + 1 + 8 + FlagsLen(el)
    [] el.t = "Reference" -> 1 + 1 + 1 + 1 + 5 * Len(el.v) + 1
    [] OTHER -> 0

\* a layered (tree) value has no value hash of its own and reserves two bytes
\* for its size; any other value stores value hash and node hash
ValueFootprint(el, is_layered) ==
  IF is_layered THEN SerializedLen(el) + 32 + 2
  ELSE SerializedLen(el) + 32 + 32 + varint_len(SerializedLen(el) + 64)

NodeSize(k, el, is_layered) ==
  KeyFootprint(k) + ValueFootprint(el, is_layered) + ParentHook(k)

\* ---------------------------------------------------------------- writes
\* A call threads [s: storage, err, n: writes left before the injected
\* storage failure (-1: none), cost].
NoFault == 0 - 1
Start(s, fault) == [s |-> s, err |-> "", n |-> fault, cost |-> ZeroCost]

Write(st, ns, c) ==
  IF st.err # "" THEN st
  ELSE IF st.n = 0 THEN [st EXCEPT !.err = "StorageError"]
  ELSE [s |-> ns, err |-> "", n |-> IF st.n > 0 THEN st.n - 1 ELSE st.n,
        cost |-> AddCost(st.cost, c)]

Fail(st, e) == IF st.err # "" THEN st ELSE [st EXCEPT !.err = e]

\* Merk::clear / StorageContext::clear: removes every row under the prefix
ClearPath(s, p) == [s EXCEPT ![p] = [k \in Keys |-> NoRow]]

\* Element::delete that takes every value for a plain one
ElementDeleteAsItem(st, p, k, is_layered) ==
  IF st.err # "" THEN st
  ELSE Write(st, [st.s EXCEPT ![p][k] = NoRow],
             [ZeroCost EXCEPT !.removed = NodeSize(k, st.s[p][k].el, FALSE)])

\* Element::delete(merk, key, options, is_layered)
ElementDelete(st, p, k, is_layered) ==
  IF st.err # "" THEN st
  ELSE Write(st, [st.s EXCEPT ![p][k] = NoRow],
             [ZeroCost EXCEPT !.removed = NodeSize(k, st.s[p][k].el, is_layered)])

\* re-insert the element naming the Merk at p into its parent with the new
\* root hash, then continue with the parent, up to the root Merk
RECURSIVE PropagateUp(_, _)
PropagateUp(st, p) ==
  IF st.err # "" \/ p = <<>> THEN st
  ELSE LET parent == Front(p)
           key == Last(p)
           o == open_merk_at_path(st.s, parent)
           row == st.s[parent][key]
       IN IF o # "Ok" THEN Fail(st, o)
          ELSE IF ~(row.live /\ IsSubtreeElement(row.el)) THEN Fail(st, "CorruptedData")
          ELSE PropagateUp(
                 Write(st, [st.s EXCEPT ![parent][key].vh = root_hash(st.s, p)],
                       [ZeroCost EXCEPT !.replaced = NodeSize(key, row.el, TRUE)]),
                 parent)

propagate_changes(st, p) == PropagateUp(st, p)

\* ---------------------------------------------------------------- find_subtrees
TreeKeys(s, q) == SelectSeq(KeyOrder, LAMBDA k : IsTree(s[q][k].el))
SubPaths(s, q) == [i \in 1..Len(TreeKeys(s, q)) |-> Append(q, TreeKeys(s, q)[i])]

RECURSIVE FindLoop(_, _, _)
FindLoop(s, queue, result) ==
  IF queue = <<>> THEN result
  ELSE LET q == Last(queue) IN
       FindLoop(s, Front(queue) \o SubPaths(s, q), result \o SubPaths(s, q))

find_subtrees(s, path) == FindLoop(s, <<path>>, <<path>>)

Reverse(seq) == [i \in 1..Len(seq) |-> seq[Len(seq) + 1 - i]]
Range(seq) == {seq[i] : i \in DOMAIN seq}

\* ---------------------------------------------------------------- delete
DeleteOptions(allow, returns_error) ==
  [allow_deleting_non_empty_trees |-> allow,
   deleting_non_empty_trees_returns_error |-> returns_error]
DefaultDeleteOptions == DeleteOptions(FALSE, TRUE)
IfEmptyTreeOptions == DeleteOptions(FALSE, FALSE)

\* result of a call: storage afterwards, error ("" when Ok), returned value,
\* the branch taken, accumulated storage cost, and the seek_count of the
\* returned OperationCost (followed for delete_up_tree_while_empty only)
Result(s, err, val, branch, cost) ==
  [s |-> s, err |-> err, val |-> val, branch |-> branch, cost |-> cost, seek |-> 0]
WithSeeks(r, seek_count) == [r EXCEPT !.seek = seek_count]

Done(st, val, branch) == Result(st.s, st.err, IF st.err = "" THEN val ELSE 0, branch, st.cost)

is_empty_tree(s, p) == RawKeys(s, p) = {}
is_empty_tree_except(s, p, except_keys) == RawKeys(s, p) \subseteq except_keys

\* `if !options.allow_deleting_non_empty_trees && !is_empty`
RefusesNothing(options, is_empty) == FALSE
Refuses(options, is_empty) == ~options.allow_deleting_non_empty_trees /\ ~is_empty

\* Element::delete followed by the propagation of the new root hash
DeleteWithoutPropagate(st, path, key, is_layered) == ElementDelete(st, path, key, is_layered)
DeleteAndPropagate(st, path, key, is_layered) ==
  propagate_changes(ElementDelete(st, path, key, is_layered), path)

\* the tree arm: Element::delete(.., true)
DeleteLayeredAsItem(st, path, key) == DeleteAndPropagate(st, path, key, FALSE)
DeleteLayered(st, path, key) == DeleteAndPropagate(st, path, key, TRUE)

\* `storage.clear().map_err(|e| Error::CorruptedData(..))`
CleanupError(st) == IF st.err = "StorageError" THEN [st EXCEPT !.err = "CorruptedData"] ELSE st

\* without a transaction every subtree is opened and cleared in place,
\* deepest first
RECURSIVE ClearOpened(_, _, _)
ClearOpened(st, paths, i) ==
  IF i > Len(paths) \/ st.err # "" THEN st
  ELSE LET o == open_merk_at_path(st.s, paths[i]) IN
       IF o # "Ok" THEN Fail(st, o)
       ELSE ClearOpened(CleanupError(Write(st, ClearPath(st.s, paths[i]), ZeroCost)),
                        paths, i + 1)

\* under a transaction the storage contexts are cleared into a StorageBatch
RECURSIVE ClearBatched(_, _, _)
ClearBatched(st, paths, i) ==
  IF i > Len(paths) \/ st.err # "" THEN st
  ELSE ClearBatched(CleanupError(Write(st, ClearPath(st.s, paths[i]), ZeroCost)),
                    paths, i + 1)

\* a StorageBatch reaches the storage only when it is committed
CommitBatch(s0, st) == IF st.err # "" THEN [st EXCEPT !.s = s0] ELSE st

delete_internal_without_transaction(s, path, key, options, fault) ==
  LET element == get_raw(s, path, key)
      st0 == Start(s, fault)
      sub == Append(path, key)
  IN IF ~element.ok THEN Result(s, element.err, 0, "none", ZeroCost)
     ELSE IF IsTree(element.el)
     THEN LET is_empty == is_empty_tree(s, sub) IN
          IF Refuses(options, is_empty)
          THEN IF options.deleting_non_empty_trees_returns_error
               THEN Result(s, "DeletingNonEmptyTree", 0, "refused", ZeroCost)
               ELSE Result(s, "", 0, "refused", ZeroCost)
          ELSE LET cleared == IF ~is_empty
                              THEN ClearOpened(st0, Reverse(find_subtrees(s, sub)), 1)
                              ELSE st0
               IN Done(DeleteLayered(cleared, path, key), 1,
                       IF is_empty THEN "empty_tree" ELSE "non_empty_tree")
     ELSE Done(DeleteAndPropagate(st0, path, key, FALSE), 1, "element")

\* the deletion reported but never written through the transaction
delete_internal_on_transaction_unwritten(s, path, key, options, fault) ==
  LET element == get_raw(s, path, key)
  IN IF ~element.ok THEN Result(s, element.err, 0, "none", ZeroCost)
     ELSE Result(s, "", 1, "element",
                 [ZeroCost EXCEPT !.removed = NodeSize(key, element.el, IsTree(element.el))])

delete_internal_on_transaction(s, path, key, options, fault) ==
  LET element == get_raw(s, path, key)
      st0 == Start(s, fault)
      sub == Append(path, key)
  IN IF ~element.ok THEN Result(s, element.err, 0, "none", ZeroCost)
     ELSE IF IsTree(element.el)
     THEN LET is_empty == is_empty_tree(s, sub) IN
          IF Refuses(options, is_empty)
          THEN IF options.deleting_non_empty_trees_returns_error
               THEN Result(s, "DeletingNonEmptyTree", 0, "refused", ZeroCost)
               ELSE Result(s, "", 0, "refused", ZeroCost)
          ELSE IF ~is_empty
          THEN LET cleared == ClearBatched(st0, find_subtrees(s, sub), 1)
               IN Done(CommitBatch(s, DeleteLayered(cleared, path, key)), 1, "non_empty_tree")
          ELSE Done(DeleteLayered(st0, path, key), 1, "empty_tree")
     ELSE Done(DeleteAndPropagate(st0, path, key, FALSE), 1, "element")

delete_internal(s, path, key, options, transaction, fault) ==
  IF transaction THEN delete_internal_on_transaction(s, path, key, options, fault)
  ELSE delete_internal_without_transaction(s, path, key, options, fault)

delete(s, path, key, options, transaction, fault) ==
  delete_internal(s, path, key, options, transaction, fault)

delete_if_empty_tree(s, path, key, transaction, fault) ==
  delete_internal(s, path, key, IfEmptyTreeOptions, transaction, fault)

\* ---------------------------------------------------------------- delete planner
GroveDbOp(op, path, key) == [op |-> op, path |-> path, key |-> key]
IsDeleteOp(o) == o.op \in {"Delete", "DeleteTree"}

NoOp == GroveDbOp("None", <<>>, "")
\* CostResult<Option<GroveDbOp>>: err, Some/None, the op
Planned(err, some, op) == [err |-> err, some |-> some, op |-> op]

delete_operation_root_unchecked(s, path, key, options, validate, current_batch_operations) ==
  IF ~get_raw(s, path, key).ok THEN Planned(get_raw(s, path, key).err, FALSE, NoOp)
  ELSE Planned("", TRUE, GroveDbOp("Delete", path, key))

\* a planner that takes a tree for empty whatever the batch inserts into it
delete_operation_ignoring_inserts(s, path, key, options, validate, current_batch_operations) ==
  LET element == get_raw(s, path, key)
      sub == Append(path, key)
      batch_deleted_keys == {o.key : o \in {x \in Range(current_batch_operations) :
                                              IsDeleteOp(x) /\ x.path = sub}}
      is_empty == is_empty_tree_except(s, sub, batch_deleted_keys)
  IN IF Len(path) = 0 THEN Planned("InvalidPath", FALSE, NoOp)
     ELSE IF validate /\ check_subtree_exists_path_not_found(s, path) # "Ok"
     THEN Planned(check_subtree_exists_path_not_found(s, path), FALSE, NoOp)
     ELSE IF ~element.ok THEN Planned(element.err, FALSE, NoOp)
     ELSE IF IsTree(element.el)
     THEN IF Refuses(options, is_empty)
          THEN IF options.deleting_non_empty_trees_returns_error
               THEN Planned("DeletingNonEmptyTree", FALSE, NoOp)
               ELSE Planned("", FALSE, NoOp)
          ELSE IF is_empty THEN Planned("", TRUE, GroveDbOp("DeleteTree", path, key))
          ELSE Planned("NotSupported", FALSE, NoOp)
     ELSE Planned("", TRUE, GroveDbOp("Delete", path, key))

delete_operation_for_delete_internal(s, path, key, options, validate, current_batch_operations) ==
  LET check == IF validate THEN check_subtree_exists_path_not_found(s, path) ELSE "Ok"
      element == get_raw(s, path, key)
      sub == Append(path, key)
      batch_deleted_keys == {o.key : o \in {x \in Range(current_batch_operations) :
                                              IsDeleteOp(x) /\ x.path = sub}}
      is_empty == /\ is_empty_tree_except(s, sub, batch_deleted_keys)
                  /\ ~\E o \in Range(current_batch_operations) : ~IsDeleteOp(o) /\ o.path = sub
  IN IF Len(path) = 0 THEN Planned("InvalidPath", FALSE, NoOp)
     ELSE IF check # "Ok" THEN Planned(check, FALSE, NoOp)
     ELSE IF ~element.ok THEN Planned(element.err, FALSE, NoOp)
     ELSE IF IsTree(element.el)
     THEN IF Refuses(options, is_empty)
          THEN IF options.deleting_non_empty_trees_returns_error
               THEN Planned("DeletingNonEmptyTree", FALSE, NoOp)
               ELSE Planned("", FALSE, NoOp)
          ELSE IF is_empty THEN Planned("", TRUE, GroveDbOp("DeleteTree", path, key))
          ELSE Planned("NotSupported", FALSE, NoOp)
     ELSE Planned("", TRUE, GroveDbOp("Delete", path, key))

\* stop_path_height: None is NoStop
NoStop == 0 - 1
\* CostResult<Option<Vec<GroveDbOp>>>
PlannedOps(err, some, ops) == [err |-> err, some |-> some, ops |-> ops]

RECURSIVE add_delete_operations_for_delete_up_tree_while_empty(_, _, _, _, _, _)
add_delete_operations_for_delete_up_tree_while_empty(s, path, key, stop_path_height, validate, current_batch_operations) ==
  LET check == IF validate THEN check_subtree_exists_path_not_found(s, path) ELSE "Ok"
      this_level == delete_operation_for_delete_internal(
                      s, path, key, IfEmptyTreeOptions, validate, current_batch_operations)
  IN IF stop_path_height # NoStop /\ stop_path_height = Len(path)
     THEN PlannedOps("", FALSE, <<>>)
     ELSE IF check # "Ok" THEN PlannedOps(check, FALSE, <<>>)
     ELSE IF this_level.err # "" THEN PlannedOps(this_level.err, FALSE, <<>>)
     ELSE IF ~this_level.some THEN PlannedOps("", FALSE, <<>>)
     ELSE IF Len(path) = 0 THEN PlannedOps("", TRUE, <<this_level.op>>)
     ELSE LET upper == add_delete_operations_for_delete_up_tree_while_empty(
                         s, Front(path), Last(path), stop_path_height, validate,
                         Append(current_batch_operations, this_level.op))
          IN IF upper.err # "" THEN PlannedOps(upper.err, FALSE, <<>>)
             ELSE IF upper.some THEN PlannedOps("", TRUE, <<this_level.op>> \o upper.ops)
             ELSE PlannedOps("", TRUE, <<this_level.op>>)

\* ---------------------------------------------------------------- batch executor
\* Delete / DeleteTree ops are applied per Merk, deepest Merks first; the new
\* root hash of a touched Merk is folded into its element in the parent Merk
\* unless the batch deletes that element; the StorageBatch commits atomically.
Deletes(ops, p, k) == \E o \in Range(ops) : o.path = p /\ o.key = k
OpAt(ops, p, k) == CHOOSE o \in Range(ops) : o.path = p /\ o.key = k

BatchRow(s, ops, dirty, p, k) ==
  IF Deletes(ops, p, k) THEN NoRow
  ELSE IF Len(p) < MaxDepth /\ Append(p, k) \in dirty
  THEN [s[p][k] EXCEPT !.vh = root_hash(s, Append(p, k))]
  ELSE s[p][k]

BatchRowCost(s, ops, dirty, p, k) ==
  IF Deletes(ops, p, k)
  THEN [ZeroCost EXCEPT !.removed = NodeSize(k, s[p][k].el, OpAt(ops, p, k).op = "DeleteTree")]
  ELSE IF Len(p) < MaxDepth /\ Append(p, k) \in dirty
  THEN [ZeroCost EXCEPT !.replaced = NodeSize(k, s[p][k].el, TRUE)]
  ELSE ZeroCost

RECURSIVE SumCosts(_, _)
SumCosts(f, dom) ==
  IF dom = {} THEN ZeroCost
  ELSE LET x == CHOOSE y \in dom : TRUE IN AddCost(f[x], SumCosts(f, dom \ {x}))

RECURSIVE BatchLevel(_, _, _, _)
BatchLevel(st, ops, level, dirty) ==
  IF level < 0 \/ st.err # "" THEN st
  ELSE LET here == {o.path : o \in {x \in Range(ops) : Len(x.path) = level}}
                     \cup {Front(p) : p \in {q \in dirty : Len(q) = level + 1}}
           slots == here \X Keys
           bad_open == {p \in here : open_merk_at_path(st.s, p) # "Ok"}
           bad_key == {sl \in slots : /\ Deletes(ops, sl[1], sl[2])
                                      /\ ~ElementGet(st.s, sl[1], sl[2]).ok}
           bad_child == {sl \in slots : /\ ~Deletes(ops, sl[1], sl[2])
                                        /\ Len(sl[1]) < MaxDepth
                                        /\ Append(sl[1], sl[2]) \in dirty
                                        /\ ~(st.s[sl[1]][sl[2]].live
                                             /\ IsSubtreeElement(st.s[sl[1]][sl[2]].el))}
           ns == [p \in Paths |->
                    IF p \in here THEN [k \in Keys |-> BatchRow(st.s, ops, dirty, p, k)]
                    ELSE st.s[p]]
           cost == SumCosts([sl \in slots |-> BatchRowCost(st.s, ops, dirty, sl[1], sl[2])],
                            slots)
       IN IF bad_open # {} THEN Fail(st, "PathNotFound")
          ELSE IF bad_key # {} THEN Fail(st, "PathKeyNotFound")
          ELSE IF bad_child # {} THEN Fail(st, "CorruptedData")
          ELSE IF here = {} THEN BatchLevel(st, ops, level - 1, {})
          ELSE BatchLevel(Write(st, ns, cost), ops, level - 1, here)

apply_batch(s, ops, fault) ==
  CommitBatch(s, BatchLevel(Start(s, fault), ops, MaxDepth, {}))

\* ---------------------------------------------------------------- seek_count
\* every read of a row through a storage context is one seek; opening the
\* Merk at a non-root path reads the element naming it
open_merk_seeks(p) == IF p = <<>> THEN 0 ELSE 1
get_raw_seeks(s, p, k) ==
  open_merk_seeks(p) + (IF open_merk_at_path(s, p) = "Ok" THEN 1 ELSE 0)
check_subtree_exists_seeks(s, p) ==
  IF Len(p) = 0 THEN 0 ELSE get_raw_seeks(s, Front(p), Last(p))
\* one raw iterator for every subtree taken off the queue
find_subtrees_seeks(s, path) == Len(find_subtrees(s, path))

\* the cost delete_operation_for_delete_internal returns with its result
delete_operation_seeks(s, path, key, validate) ==
  LET check == IF validate THEN check_subtree_exists_path_not_found(s, path) ELSE "Ok"
      checked == IF validate THEN check_subtree_exists_seeks(s, path) ELSE 0
      element == get_raw(s, path, key)
      read == checked + get_raw_seeks(s, path, key)
      sub == Append(path, key)
  IN IF Len(path) = 0 THEN 0
     ELSE IF check # "Ok" THEN checked
     ELSE IF ~element.ok THEN read
     ELSE IF IsTree(element.el)
     THEN read + find_subtrees_seeks(s, sub) + open_merk_seeks(sub) + 1
     ELSE read

\* the cost add_delete_operations_for_delete_up_tree_while_empty returns
RECURSIVE add_delete_operations_seeks(_, _, _, _, _, _)
add_delete_operations_seeks(s, path, key, stop_path_height, validate, current_batch_operations) ==
  LET check == IF validate THEN check_subtree_exists_path_not_found(s, path) ELSE "Ok"
      checked == IF validate THEN check_subtree_exists_seeks(s, path) ELSE 0
      this_level == delete_operation_for_delete_internal(
                      s, path, key, IfEmptyTreeOptions, validate, current_batch_operations)
      planned == checked + delete_operation_seeks(s, path, key, validate)
  IN IF stop_path_height # NoStop /\ stop_path_height = Len(path) THEN 0
     ELSE IF check # "Ok" THEN checked
     ELSE IF this_level.err # "" \/ ~this_level.some \/ Len(path) = 0 THEN planned
     ELSE planned + add_delete_operations_seeks(
                      s, Front(path), Last(path), stop_path_height, validate,
                      Append(current_batch_operations, this_level.op))

\* apply_batch reads the row of every operation it applies
apply_batch_seeks(s, ops) == Len(ops)

delete_up_tree_while_empty(s, path, key, stop_path_height, validate, fault) ==
  LET maybe_ops == add_delete_operations_for_delete_up_tree_while_empty(
                     s, path, key, stop_path_height, validate, <<>>)
      cost == add_delete_operations_seeks(s, path, key, stop_path_height, validate, <<>>)
  IN IF maybe_ops.err # "" THEN WithSeeks(Result(s, maybe_ops.err, 0, "none", ZeroCost), cost)
     ELSE IF ~maybe_ops.some
     THEN WithSeeks(Result(s, IF stop_path_height # NoStop
                              THEN "DeleteUpTreeStopHeightMoreThanInitialPathSize"
                              ELSE "CorruptedCodeExecution", 0, "none", ZeroCost), cost)
     ELSE WithSeeks(Done(apply_batch(s, maybe_ops.ops, fault), Len(maybe_ops.ops), "batch"),
                    apply_batch_seeks(s, maybe_ops.ops))

\* ---------------------------------------------------------------- insert
\* a Tree / SumTree is inserted with no root key: rows left under its prefix
\* are not linked from the new Merk
Unlink(s, p) == [s EXCEPT ![p] = [k \in Keys |-> [s[p][k] EXCEPT !.live = FALSE]]]

insert(s, path, key, element) ==
  LET check == check_subtree_exists_invalid_path(s, path)
      existing == ElementGet(s, path, key)
      st0 == Start(s, NoFault)
      row == [el |-> element,
              vh |-> IF IsSubtreeElement(element) THEN NULL_HASH ELSE value_hash(element),
              live |-> TRUE]
      placed == [s EXCEPT ![path][key] = row]
      ns == IF IsSubtreeElement(element) THEN Unlink(placed, Append(path, key)) ELSE placed
      cost == [ZeroCost EXCEPT !.added = NodeSize(key, element, IsSubtreeElement(element))]
  IN IF check # "Ok" THEN Result(s, check, 0, "none", ZeroCost)
     ELSE IF existing.ok /\ IsSubtreeElement(existing.el)
     THEN Result(s, "OverrideNotAllowed", 0, "none", ZeroCost)
     ELSE Done(propagate_changes(Write(st0, ns, cost), path), 1, "insert")

\* ---------------------------------------------------------------- Merk trees
\* tallest Merk of the chunk scenarios
MaxHeight == 11
\* tallest Merk whose rows are iterated into leaf chunks
MaxLeafHeight == 5
\* most calls of get_next_chunk on one iterator
MaxChunks == 2

MIN_TRUNK_HEIGHT == 5
\* usize::MAX, the remaining depth that is never used up
usize_MAX == 2147483647

Max(a, b) == IF a >= b THEN a ELSE b

\* a committed tree node: key, children, cached height
NoTree == [key |-> 0, height |-> 0]
TreeNode(key, left, right) ==
  [key |-> key, left |-> left, right |-> right,
   height |-> 1 + Max(left.height, right.height)]
IsSome(t) == t.key # 0

\* balanced shapes: "P" both children as tall as can be, "L" the right child
\* one lower than the left, "R" the left child one lower than the right
Families == {"P", "L", "R"}
LeftHeight(family, h) == IF family = "R" THEN h - 2 ELSE h - 1
RightHeight(family, h) == IF family = "L" THEN h - 2 ELSE h - 1

RECURSIVE TreeSize(_, _)
TreeSize(family, h) ==
  IF h <= 0 THEN 0
  ELSE 1 + TreeSize(family, LeftHeight(family, h)) + TreeSize(family, RightHeight(family, h))

\* the tree of the family with height h whose keys are lo, lo + 1, ..
RECURSIVE MakeTree(_, _, _)
MakeTree(family, h, lo) ==
  IF h <= 0 THEN NoTree
  ELSE LET key == lo + TreeSize(family, LeftHeight(family, h)) IN
       TreeNode(key, MakeTree(family, LeftHeight(family, h), lo),
                MakeTree(family, RightHeight(family, h), key + 1))

\* kv_hash = H(key, value_hash), node_hash = H(kv_hash, left hash, right hash)
ZeroHash == <<>>
kv_hash(key) == <<"kv", key>>
node_hash(kv, left, right) == <<kv, left, right>>

RECURSIVE tree_hash(_)
tree_hash(t) ==
  IF ~IsSome(t) THEN ZeroHash
  ELSE node_hash(kv_hash(t.key), tree_hash(t.left), tree_hash(t.right))

\* ---------------------------------------------------------------- proof ops
\* Node: the variant, the key it carries (0: none), the hash it carries or
\* gives (the node hash for Hash, the kv hash for every other variant)
Node(variant, key, hash) == [t |-> variant, key |-> key, hash |-> hash]
FullNodes == {"KV", "KVValueHash", "KVValueHashFeatureType"}
AbridgedNodes == {"Hash", "KVHash", "KVDigest", "KVRefValueHash"}

to_hash_node(t) == Node("Hash", 0, tree_hash(t))
to_kvhash_node(t) == Node("KVHash", 0, kv_hash(t.key))
to_kv_value_hash_feature_type_node(t) == Node("KVValueHashFeatureType", t.key, kv_hash(t.key))

NoNode == Node("None", 0, ZeroHash)
Push(node) == [op |-> "Push", node |-> node]
Parent == [op |-> "Parent", node |-> NoNode]
Child == [op |-> "Child", node |-> NoNode]

\* ---------------------------------------------------------------- trunk proof
\* the ops pushed and the trunk height returned
RECURSIVE traverse_for_height_proof(_, _)
traverse_for_height_proof(t, depth) ==
  LET has_left_child == IsSome(t.left)
      below == IF has_left_child THEN traverse_for_height_proof(t.left, depth + 1)
               ELSE [proof |-> <<>>, trunk_height |-> depth \div 2]
      trunk_height == below.trunk_height
  IN [proof |-> below.proof \o
                (IF depth > trunk_height
                 THEN <<Push(to_kvhash_node(t))>>
                      \o (IF has_left_child THEN <<Parent>> ELSE <<>>)
                      \o (IF IsSome(t.right)
                          THEN <<Push(Node("Hash", 0, tree_hash(t.right))), Child>>
                          ELSE <<>>)
                 ELSE <<>>),
      trunk_height |-> trunk_height]

traverse_for_trunk_as_hash(t, remaining_depth, is_leftmost) ==
  <<Push(to_hash_node(t))>>

RECURSIVE traverse_for_trunk(_, _, _)
traverse_for_trunk(t, remaining_depth, is_leftmost) ==
  IF remaining_depth = 0
  THEN IF is_leftmost THEN <<>> ELSE <<Push(to_hash_node(t))>>
  ELSE LET has_left_child == IsSome(t.left) IN
       (IF has_left_child
        THEN traverse_for_trunk(t.left, remaining_depth - 1, is_leftmost) ELSE <<>>)
       \o <<Push(to_kv_value_hash_feature_type_node(t))>>
       \o (IF has_left_child THEN <<Parent>> ELSE <<>>)
       \o (IF IsSome(t.right)
           THEN traverse_for_trunk(t.right, remaining_depth - 1, FALSE) \o <<Child>>
           ELSE <<>>)

create_trunk_proof_by_tree_height(t) ==
  LET height_proof == traverse_for_height_proof(t, 1)
      trunk_height == t.height \div 2
  IN IF trunk_height < MIN_TRUNK_HEIGHT
     THEN [proof |-> traverse_for_trunk(t, usize_MAX, TRUE), has_more |-> FALSE]
     ELSE [proof |-> height_proof.proof \o traverse_for_trunk(t, trunk_height, TRUE),
           has_more |-> TRUE]

create_trunk_proof(t) ==
  LET height_proof == traverse_for_height_proof(t, 1)
      trunk_height == height_proof.trunk_height
  IN IF trunk_height < MIN_TRUNK_HEIGHT
     THEN [proof |-> traverse_for_trunk(t, usize_MAX, TRUE), has_more |-> FALSE]
     ELSE [proof |-> height_proof.proof \o traverse_for_trunk(t, trunk_height, TRUE),
           has_more |-> TRUE]

\* ---------------------------------------------------------------- proof execution
NoProofTree == [node |-> NoNode]
ProofTree(node, left, right) == [node |-> node, left |-> left, right |-> right]
IsProofTree(tree) == tree.node.t # "None"
child(tree, left) == IF left THEN tree.left ELSE tree.right

Executed(err, tree) == [err |-> err, tree |-> tree]

\* the stack machine: Push puts a node on the stack; Parent pops the parent,
\* then the child that becomes its left child; Child pops the child, then the
\* parent whose right child it becomes
ExecuteOp(st, op, accepted) ==
  LET n == Len(st.stack)
      left == op.op = "Parent"
      parent == IF left THEN st.stack[n] ELSE st.stack[n - 1]
      kid == IF left THEN st.stack[n - 1] ELSE st.stack[n]
  IN IF st.err # "" THEN st
     ELSE IF op.op = "Push"
     THEN IF op.node.t \notin accepted THEN [st EXCEPT !.err = "OldChunkRestoringError"]
          ELSE [st EXCEPT !.stack = Append(@, ProofTree(op.node, NoProofTree, NoProofTree))]
     ELSE IF n < 2 THEN [st EXCEPT !.err = "InvalidProofError"]
     ELSE IF IsProofTree(child(parent, left)) THEN [st EXCEPT !.err = "InvalidProofError"]
     ELSE [st EXCEPT !.stack = Append(SubSeq(@, 1, n - 2),
                                      IF left THEN [parent EXCEPT !.left = kid]
                                      ELSE [parent EXCEPT !.right = kid])]

\* the ops from..to in order, the first half before the second
RECURSIVE ExecuteOps(_, _, _, _, _)
ExecuteOps(st, ops, from, to, accepted) ==
  IF from > to THEN st
  ELSE IF from = to THEN ExecuteOp(st, ops[from], accepted)
  ELSE LET mid == (from + to) \div 2
           first == ExecuteOps(st, ops, from, mid, accepted)
       IN IF first.err # "" THEN first
          ELSE ExecuteOps(first, ops, mid + 1, to, accepted)

\* execute(ops, false, visit_node), visit_node accepting the given variants;
\* one item must remain on the stack
execute(ops, accepted) ==
  LET st == ExecuteOps([err |-> "", stack |-> <<>>], ops, 1, Len(ops), accepted)
  IN IF st.err # "" THEN Executed(st.err, NoProofTree)
     ELSE IF Len(st.stack) # 1 THEN Executed("InvalidProofError", NoProofTree)
     ELSE Executed("", st.stack[1])

RECURSIVE proof_tree_hash(_)
proof_tree_hash(tree) ==
  IF ~IsProofTree(tree) THEN ZeroHash
  ELSE IF tree.node.t = "Hash" THEN tree.node.hash
  ELSE node_hash(tree.node.hash, proof_tree_hash(tree.left), proof_tree_hash(tree.right))

\* ---------------------------------------------------------------- verify_trunk
Verified(err, tree, height) == [err |-> err, tree |-> tree, height |-> height]

verify_height_proof_from_zero(tree) ==
  IF ~IsProofTree(tree.left) THEN 0 ELSE 2

\* the height, or 0 - 1 for the error
RECURSIVE verify_height_proof(_)
verify_height_proof(tree) ==
  IF ~IsProofTree(tree.left) THEN 1
  ELSE IF tree.left.node.t = "Hash" THEN 0 - 1
  ELSE LET below == verify_height_proof(tree.left) IN
       IF below < 0 THEN below ELSE below + 1

\* a completeness check that looks at the root only
verify_completeness_root_only(tree, remaining_depth, leftmost) ==
  remaining_depth > 0 => tree.node.t \in FullNodes

RECURSIVE verify_completeness(_, _, _)
verify_completeness(tree, remaining_depth, leftmost) ==
  IF remaining_depth > 0
  THEN /\ tree.node.t \in FullNodes
       /\ IsProofTree(tree.left)
            => verify_completeness(tree.left, remaining_depth - 1, leftmost)
       /\ IsProofTree(tree.right)
            => verify_completeness(tree.right, remaining_depth - 1, FALSE)
  ELSE IF ~leftmost THEN tree.node.t = "Hash"
  ELSE tree.node.t = "KVHash"

verify_trunk(ops) ==
  LET run == execute(ops, FullNodes \cup AbridgedNodes)
      kv_only == \A i \in DOMAIN ops : ops[i].op = "Push" => ops[i].node.t \in FullNodes
      height == verify_height_proof(run.tree)
      trunk_height == height \div 2
  IN IF run.err # "" THEN Verified(run.err, NoProofTree, 0)
     ELSE IF height < 0 THEN Verified("OldChunkRestoringError", NoProofTree, 0)
     ELSE IF trunk_height < MIN_TRUNK_HEIGHT
     THEN IF ~kv_only THEN Verified("OldChunkRestoringError", NoProofTree, 0)
          ELSE Verified("", run.tree, height)
     ELSE IF ~verify_completeness(run.tree, trunk_height, TRUE)
     THEN Verified("OldChunkRestoringError", NoProofTree, 0)
     ELSE Verified("", run.tree, height)

\* count_node_types of the tests
RECURSIVE CountNodes(_, _)
CountNodes(tree, variant) ==
  IF ~IsProofTree(tree) THEN 0
  ELSE (IF tree.node.t = variant THEN 1 ELSE 0)
       + CountNodes(tree.left, variant) + CountNodes(tree.right, variant)

\* ---------------------------------------------------------------- leaf chunks
\* no key: an end_key of None, the key of an absent link
NoKey == NoTree.key

\* the node rows under the Merk's prefix, in key order, as the raw iterator
\* yields them: the key, whether the node has a left link, the key of its
\* right child
RECURSIVE Rows(_)
Rows(t) ==
  IF ~IsSome(t) THEN <<>>
  ELSE Rows(t.left)
       \o <<[key |-> t.key, left |-> IsSome(t.left), right |-> t.right.key]>>
       \o Rows(t.right)

\* `while let Some(top_key) = stack.last() { if key < top_key { break } .. }`
RECURSIVE PopWhile(_, _)
PopWhile(it, key) ==
  IF it.stack = <<>> \/ key < it.stack[Len(it.stack)] THEN it
  ELSE PopWhile([it EXCEPT !.stack = SubSeq(@, 1, Len(@) - 1),
                           !.chunk = Append(@, Child)], key)

\* one turn of the loop on the row the iterator is at
ChunkRow(it, row, end_key) ==
  LET kv == Node("KVValueHashFeatureType", row.key, kv_hash(row.key))
      pushed == [it EXCEPT !.chunk = @ \o <<Push(kv)>>
                                       \o (IF row.left THEN <<Parent>> ELSE <<>>)]
      linked == IF row.right # NoKey
                THEN [pushed EXCEPT !.stack = Append(@, row.right)]
                ELSE PopWhile(pushed, row.key)
  IN IF it.stop THEN it
     ELSE IF end_key # NoKey /\ row.key = end_key THEN [it EXCEPT !.stop = TRUE]
     ELSE [linked EXCEPT !.pos = @ + 1]

\* the turns of the loop on the rows from..to
RECURSIVE ChunkRows(_, _, _, _, _)
ChunkRows(it, rows, from, to, end_key) ==
  IF from > to THEN it
  ELSE IF from = to THEN ChunkRow(it, rows[from], end_key)
  ELSE LET mid == (from + to) \div 2
           first == ChunkRows(it, rows, from, mid, end_key)
       IN IF first.stop THEN first
          ELSE ChunkRows(first, rows, mid + 1, to, end_key)

get_next_chunk_on_end_key(rows, pos, end_key) ==
  LET it == ChunkRows([chunk |-> <<>>, stack |-> <<>>, pos |-> pos, stop |-> FALSE],
                      rows, pos, Len(rows), end_key)
  IN [chunk |-> it.chunk, pos |-> it.pos]

\* iter: the rows and the position of the iterator (valid while it is on a
\* row); returns the chunk and the position the iterator is left at
get_next_chunk(rows, pos, end_key) ==
  LET it == ChunkRows([chunk |-> <<>>, stack |-> <<>>, pos |-> pos, stop |-> FALSE],
                      rows, pos, Len(rows), end_key)
  IN [chunk |-> it.chunk,
      pos |-> IF it.pos <= Len(rows) THEN it.pos + 1 ELSE it.pos]

verify_leaf_any_node(ops, expected_hash) ==
  LET run == execute(ops, FullNodes \cup AbridgedNodes)
  IN IF run.err # "" THEN Verified(run.err, NoProofTree, 0)
     ELSE Verified("", run.tree, 0)

\* the comparison of the hashes builds an error that is dropped
verify_leaf(ops, expected_hash) ==
  LET run == execute(ops, FullNodes)
      dropped == IF run.err = "" /\ proof_tree_hash(run.tree) # expected_hash
                 THEN "OldChunkRestoringError" ELSE ""
  IN IF run.err # "" THEN Verified(run.err, NoProofTree, 0)
     ELSE Verified("", run.tree, 0)

\* ---------------------------------------------------------------- state
VARIABLES
  db,      \* committed storage
  txdb,    \* storage as seen through the open transaction (db when none is open)
  tx,      \* "none" | "open"
  built,   \* index of the last slot filled while the forest is built
  ops,     \* mutating calls made after the build
  clean,   \* every call so far returned Ok
  ref,     \* the reference chain of the reference scenarios
  chunk,   \* the Merk, iterator and proof of the chunk scenarios
  merk,    \* the Merk of the root hash scenarios
  spath,   \* the subtree paths of the path scenarios
  pquery,  \* the path queries of the merge scenarios
  brange,  \* the binary range of the range scenarios
  sctx,    \* the batch storage context and its backend
  last     \* the last call and what it returned

vars == <<db, txdb, tx, built, ops, clean, ref, chunk, merk, spath, pquery, brange, sctx, last>>
\* the components no call of the database touches
units == <<merk, spath, pquery, brange, sctx>>

\* the arguments of a call: path, key, options, stop_path_height, the write
\* after which the storage fails
Args(path, key, options, stop, fault) ==
  [path |-> path, key |-> key, options |-> options, stop |-> stop, fault |-> fault]
NoArgs == Args(<<>>, "", DefaultDeleteOptions, NoStop, NoFault)

Call(op, args, r, transaction) ==
  [op |-> op, args |-> args, err |-> r.err, val |-> r.val, branch |-> r.branch,
   cost |-> r.cost, seek |-> r.seek, tx |-> transaction, el |-> NoElement, lookups |-> 0]
NoCall == [op |-> "none", args |-> NoArgs, err |-> "", val |-> 0, branch |-> "none",
           cost |-> ZeroCost, seek |-> 0, tx |-> FALSE, el |-> NoElement, lookups |-> 0]
Read(op, r, lookups) == [NoCall EXCEPT !.op = op, !.err = r.err, !.el = r.el,
                                       !.lookups = lookups]
Control(op) == [NoCall EXCEPT !.op = op]
NoRef == [k |-> 0, tail |-> 0]
NoChunk == [op |-> "none"]
NoMerk == [op |-> "none"]
NoSubtreePath == [op |-> "none"]
NoPathQuery == [op |-> "none"]
NoBinaryRange == [op |-> "none"]
NoContext == [op |-> "none"]
NoUnits ==
  /\ merk = NoMerk
  /\ spath = NoSubtreePath
  /\ pquery = NoPathQuery
  /\ brange = NoBinaryRange
  /\ sctx = NoContext

\* the paths calls are made on: the key1 spine of the forest
SpinePath(n) == [i \in 1..n |-> K1]
SpinePaths == {SpinePath(n) : n \in 0..MaxDepth}

Cat == Item("cat", NoFlags)
\* a slot the build may leave empty is optional
Slot(path, key, menu, optional) ==
  [path |-> path, key |-> key, menu |-> menu, optional |-> optional]
BuildSlots ==
  << Slot(<<>>, K1, {Tree(NoFlags)}, FALSE),
     Slot(<<>>, K2, {Cat}, FALSE),
     Slot(<<K1>>, K1, {Tree(NoFlags), SumTree(NoFlags)}, FALSE),
     Slot(<<K1>>, K2, {Reference(<<K2>>)}, TRUE),
     Slot(<<K1, K1>>, K1, {Tree(NoFlags)}, TRUE),
     Slot(<<K1, K1>>, K2, {Cat}, TRUE),
     Slot(<<K1, K1, K1>>, K1, {Cat}, TRUE) >>

\* the build inserts the elements without flags
InsertMenu == {Tree(DogFlags), Item("cat", DogFlags)}
AllowOptions == DeleteOptions(TRUE, FALSE)
Faults == {NoFault} \cup 1..MaxFault
StopHeights == {NoStop} \cup 0..2

Init ==
  /\ db = EmptyStore
  /\ txdb = EmptyStore
  /\ tx = "none"
  /\ built = 0
  /\ ops = 0
  /\ clean = TRUE
  /\ ref = NoRef
  /\ chunk = NoChunk
  /\ NoUnits
  /\ last = NoCall

View == IF tx = "open" THEN txdb ELSE db

\* a call made with the open transaction, or without one when none is open
Apply(op, args, r) ==
  /\ IF tx = "open"
     THEN txdb' = r.s /\ db' = db
     ELSE db' = r.s /\ txdb' = r.s
  /\ clean' = (clean /\ r.err = "")
  /\ last' = Call(op, args, r, tx = "open")
  /\ UNCHANGED <<tx, ref, chunk, units>>

\* db.insert while the forest is built, slot after slot
Build ==
  /\ ops = 0 /\ tx = "none"
  /\ \E i \in (built + 1)..Len(BuildSlots) : \E el \in BuildSlots[i].menu :
       LET r == insert(db, BuildSlots[i].path, BuildSlots[i].key, el) IN
       /\ \A j \in (built + 1)..(i - 1) : BuildSlots[j].optional
       /\ r.err = ""
       /\ Apply("insert", Args(BuildSlots[i].path, BuildSlots[i].key, DefaultDeleteOptions,
                                NoStop, NoFault), r)
       /\ built' = i
       /\ ops' = ops

\* a client makes its calls on a forest whose required slots are filled and
\* makes no further call after one that failed, short of rolling back
Operate == /\ ops < MaxOps
           /\ last.err = ""
           /\ \A j \in (built + 1)..Len(BuildSlots) : BuildSlots[j].optional
           /\ ops' = ops + 1
           /\ built' = Len(BuildSlots)

Insert ==
  /\ Operate
  /\ \E path \in SpinePaths, key \in Keys, el \in InsertMenu :
       /\ IsSubtreeElement(el) => Len(path) < MaxDepth
       /\ Apply("insert", Args(path, key, DefaultDeleteOptions, NoStop, NoFault),
                insert(View, path, key, el))

Delete ==
  /\ Operate
  /\ \E path \in SpinePaths, key \in Keys :
       \/ Apply("delete", Args(path, key, DefaultDeleteOptions, NoStop, NoFault),
                delete(View, path, key, DefaultDeleteOptions, tx = "open", NoFault))
       \/ \E fault \in Faults :
            /\ fault # NoFault =>
                 delete(View, path, key, AllowOptions, tx = "open", fault)
                   # delete(View, path, key, AllowOptions, tx = "open", NoFault)
            /\ Apply("delete", Args(path, key, AllowOptions, NoStop, fault),
                  delete(View, path, key, AllowOptions, tx = "open", fault))

DeleteIfEmptyTree ==
  /\ Operate
  /\ \E path \in SpinePaths, key \in Keys :
       Apply("delete_if_empty_tree", Args(path, key, IfEmptyTreeOptions, NoStop, NoFault),
             delete_if_empty_tree(View, path, key, tx = "open", NoFault))

DeleteUpTreeWhileEmpty ==
  /\ Operate
  /\ \E path \in SpinePaths, key \in Keys, stop \in StopHeights :
       Apply("delete_up_tree_while_empty", Args(path, key, IfEmptyTreeOptions, stop, NoFault),
             delete_up_tree_while_empty(View, path, key, stop, TRUE, NoFault))

StartTransaction ==
  /\ tx = "none" /\ ops = 0
  /\ \A j \in (built + 1)..Len(BuildSlots) : BuildSlots[j].optional
  /\ tx' = "open"
  /\ built' = Len(BuildSlots)
  /\ last' = Control("start_transaction")
  /\ UNCHANGED <<db, txdb, ops, clean, ref, chunk, units>>

CommitTransaction ==
  /\ tx = "open"
  /\ tx' = "none"
  /\ db' = txdb
  /\ last' = Control("commit")
  /\ UNCHANGED <<txdb, built, ops, clean, ref, chunk, units>>

\* the transaction stays usable; the calls it held are discarded
RollbackTransaction ==
  /\ tx = "open"
  /\ txdb' = db
  /\ ops' = 0
  /\ last' = Control("rollback")
  /\ UNCHANGED <<db, tx, built, clean, ref, chunk, units>>

Next ==
  \/ Build
  \/ Insert
  \/ Delete
  \/ DeleteIfEmptyTree
  \/ DeleteUpTreeWhileEmpty
  \/ StartTransaction
  \/ CommitTransaction
  \/ RollbackTransaction

Spec == Init /\ [][Next]_vars

\* ---------------------------------------------------------------- reference scenarios
\* A forest whose inner elements are all trees; its deepest slots hold a chain
\* of k references starting at slot 1, ending in an item (tail = 0), in a
\* missing element (tail = NoTail) or leading back to slot tail.
NK == Len(KeyOrder)
RECURSIVE Pow(_, _)
Pow(b, e) == IF e = 0 THEN 1 ELSE b * Pow(b, e - 1)

\* the j-th (from 0) qualified path of length d
QSlot(d, j) == [x \in 1..d |-> KeyOrder[((j \div Pow(NK, d - x)) % NK) + 1]]
RefSlot(i) == QSlot(MaxDepth + 1, i - 1)

NoTail == 0 - 1
ChainElement(i, k, tail) ==
  IF i < k THEN Reference(RefSlot(i + 1))
  ELSE IF i = k THEN Reference(RefSlot(IF tail >= 1 THEN tail ELSE k + 1))
  ELSE IF i = k + 1 /\ tail = 0 THEN Cat
  ELSE NoElement

SlotIndex(q) == CHOOSE i \in 1..Pow(NK, MaxDepth + 1) : RefSlot(i) = q

RefElement(p, key, k, tail) ==
  IF Len(p) < MaxDepth THEN Tree(NoFlags)
  ELSE ChainElement(SlotIndex(Append(p, key)), k, tail)

\* the root hash the Merk at p has once every insert has propagated
RECURSIVE RefRootHash(_, _, _)
RefRootHash(p, k, tail) ==
  {<<key, RefElement(p, key, k, tail),
     IF Len(p) < MaxDepth THEN RefRootHash(Append(p, key), k, tail)
     ELSE value_hash(RefElement(p, key, k, tail))>> :
     key \in {x \in Keys : RefElement(p, x, k, tail) # NoElement}}

RefRow(p, key, k, tail) ==
  IF RefElement(p, key, k, tail) = NoElement THEN NoRow
  ELSE [el |-> RefElement(p, key, k, tail),
        vh |-> IF Len(p) < MaxDepth THEN RefRootHash(Append(p, key), k, tail)
               ELSE value_hash(RefElement(p, key, k, tail)),
        live |-> TRUE]

RefForest(k, tail) == [p \in Paths |-> [key \in Keys |-> RefRow(p, key, k, tail)]]

RefInit ==
  /\ \E k \in 0..MaxChain : \E tail \in {NoTail} \cup 0..k :
       /\ ref = [k |-> k, tail |-> tail]
       /\ db = RefForest(k, tail)
       /\ txdb = db
  /\ tx = "none"
  /\ built = 0
  /\ ops = 0
  /\ clean = TRUE
  /\ chunk = NoChunk
  /\ NoUnits
  /\ last = NoCall

\* db.get on the first slot of the chain
RefGet ==
  /\ last.op = "none"
  /\ last' = Read("get", get(db, Front(RefSlot(1)), Last(RefSlot(1))), 0)
  /\ UNCHANGED <<db, txdb, tx, built, ops, clean, ref, chunk, units>>

\* db.follow_reference on the first slot of the chain
RefFollow ==
  /\ last.op = "none"
  /\ LET f == follow_reference(db, RefSlot(1)) IN
       last' = Read("follow_reference", f.r, f.lookups)
  /\ UNCHANGED <<db, txdb, tx, built, ops, clean, ref, chunk, units>>

RefNext == RefGet \/ RefFollow

SpecRef == RefInit /\ [][RefNext]_vars

\* ---------------------------------------------------------------- reference claims
RefStart == RefSlot(1)

\* C8: follow_reference reads at most 10 elements, and get on an acyclic chain
\* of k references ending in a non-reference element returns that element when
\* k <= 10 and fails with ReferenceLimit when k > 10.
C8_ReferenceHopLimit ==
  /\ last.op = "follow_reference" => last.lookups <= 10
  /\ (last.op = "get" /\ ref.tail = 0) =>
       IF ref.k <= 10 THEN last.err = "" /\ last.el = Cat
       ELSE last.err = "ReferenceLimit" /\ last.el = NoElement

C8_Witness ==
  /\ last.op = "get" /\ ref.tail = 0 /\ ref.k = 10
  /\ last.err = "" /\ last.el = Cat
  /\ follow_reference(db, db[Front(RefStart)][Last(RefStart)].el.v).lookups = 10

\* lookups follow_reference makes, when called by get on a chain that leads
\* back to slot tail, before the path it is about to read is one it has read
LookupsBeforeRevisit == IF ref.tail = 1 THEN ref.k ELSE ref.k - 1
\* get reads at most 10 elements after the first, so it is led back only then
LeadsBack == ref.tail >= 1 /\ LookupsBeforeRevisit <= 10

\* C9 as claimed: whenever the chain get follows leads back to a visited
\* qualified path, get fails with CyclicReference.
C9_CyclicAlwaysReported ==
  (last.op = "get" /\ LeadsBack) => last.err = "CyclicReference"

\* C9 amended: get on a chain that leads back to a visited qualified path
\* never returns an element; it fails with CyclicReference when the revisit is
\* reached with hops left (fewer than 10 lookups), with ReferenceLimit when the
\* tenth lookup is the one that leads back; a reference to itself gives
\* CyclicReference.
C9_CyclicOrLimit ==
  (last.op = "get" /\ ref.tail >= 1) =>
     /\ last.el = NoElement
     /\ LookupsBeforeRevisit < 10 => last.err = "CyclicReference"
     /\ LookupsBeforeRevisit >= 10 => last.err = "ReferenceLimit"

C9_Witness ==
  /\ last.op = "get" /\ ref.k = 1 /\ ref.tail = 1
  /\ db[Front(RefStart)][Last(RefStart)].el = Reference(RefStart)
  /\ last.err = "CyclicReference"

\* ---------------------------------------------------------------- forest claims
\* (p, k) is stored: linked in the Merk at p, which is reached from the root
\* Merk through linked Tree / SumTree elements
Stored(s, p, k) ==
  /\ k \in MerkKeys(s, p)
  /\ \A i \in 1..Len(p) :
       /\ p[i] \in MerkKeys(s, SubSeq(p, 1, i - 1))
       /\ IsSubtreeElement(s[SubSeq(p, 1, i - 1)][p[i]].el)

Authenticated(s) ==
  \A p \in Paths, k \in Keys :
    (Len(p) < MaxDepth /\ Stored(s, p, k) /\ IsSubtreeElement(s[p][k].el))
      => s[p][k].vh = root_hash(s, Append(p, k))

\* C1: after any sequence of successful inserts and deletes, with or without
\* a transaction, every stored Tree / SumTree element records as value_hash
\* the current root hash of its nested Merk, at every level up to the root.
C1_Authentication == clean => (Authenticated(db) /\ Authenticated(txdb))

C1_Witness ==
  /\ clean /\ last.op = "delete" /\ last.err = "" /\ last.val = 1
  /\ Len(last.args.path) = MaxDepth
  /\ \A i \in 1..MaxDepth :
       /\ Stored(View, SubSeq(SpinePath(MaxDepth), 1, i - 1), K1)
       /\ View[SubSeq(SpinePath(MaxDepth), 1, i - 1)][K1].vh
            = root_hash(View, SubSeq(SpinePath(MaxDepth), 1, i))
  /\ root_hash(View, SpinePath(MaxDepth)) = NULL_HASH

\* C2 as claimed: in every committed state get(path, key) returns exactly the
\* element stored at (path, key).
C2_GetReturnsStored ==
  \A p \in Paths, k \in Keys :
    Stored(db, p, k) => get(db, p, k) = Ok(db[p][k].el)

\* C2 amended: in every committed state get_raw(path, key) returns exactly the
\* stored element, and so does get unless the element is a Reference; for a
\* Reference get returns the non-reference element stored at the referenced
\* path, and fails when nothing is stored there.
C2_GetReturnsStoredOrResolved ==
  \A p \in Paths, k \in Keys :
    Stored(db, p, k) =>
      LET el == db[p][k].el IN
      /\ get_raw(db, p, k) = Ok(el)
      /\ el.t # "Reference" => get(db, p, k) = Ok(el)
      /\ el.t = "Reference" =>
           LET q == Front(el.v)
               x == Last(el.v)
           IN /\ (Stored(db, q, x) /\ db[q][x].el.t # "Reference")
                   => get(db, p, k) = Ok(db[q][x].el)
              /\ (open_merk_at_path(db, q) = "Ok" /\ x \notin MerkKeys(db, q))
                   => get(db, p, k) = Err("CorruptedReferencePathKeyNotFound")

C2_Witness ==
  /\ Stored(db, <<K1>>, K2) /\ db[<<K1>>][K2].el = Reference(<<K2>>)
  /\ Stored(db, <<>>, K2) /\ db[<<>>][K2].el = Cat
  /\ get(db, <<K1>>, K2) = Ok(Cat)
  /\ get_raw(db, <<K1>>, K2) = Ok(Reference(<<K2>>))

\* the element at (path, key) is a Tree whose nested Merk holds an element
NonEmptyTreeAt(s, path, key) ==
  /\ Len(path) < MaxDepth
  /\ Stored(s, path, key) /\ s[path][key].el.t = "Tree"
  /\ MerkKeys(s, Append(path, key)) # {}

\* what reads find: get_raw of every (path, key)
Contents(s) == [p \in Paths |-> [k \in Keys |-> get_raw(s, p, k)]]

\* C3: delete of a non-empty Tree with allow_deleting_non_empty_trees = false
\* fails with DeletingNonEmptyTree when deleting_non_empty_trees_returns_error
\* is set and returns Ok(false) otherwise; the storage seen with and without
\* the transaction is unchanged.
C3_NonEmptyTreeRefused ==
  [][ (/\ last'.op \in {"delete", "delete_if_empty_tree"}
       /\ ~last'.args.options.allow_deleting_non_empty_trees
       /\ NonEmptyTreeAt(View, last'.args.path, last'.args.key))
      => /\ IF last'.args.options.deleting_non_empty_trees_returns_error
            THEN last'.err = "DeletingNonEmptyTree"
            ELSE last'.err = "" /\ last'.val = 0
         /\ db' = db /\ txdb' = txdb ]_vars

C3_Witness ==
  /\ last.op = "delete_if_empty_tree" /\ last.tx
  /\ last.err = "" /\ last.val = 0
  /\ NonEmptyTreeAt(txdb, last.args.path, last.args.key)
  /\ Stored(txdb, Append(last.args.path, last.args.key), K1)

\* C4: delete with allow_deleting_non_empty_trees = true of a non-empty Tree
\* succeeds; afterwards get(p, k) fails with PathKeyNotFound, get of every
\* element that was stored below p || k fails with PathNotFound, and every
\* sibling stored at p is read as before.
C4_TreeDeletedWithDescendants ==
  [][ (/\ last'.op = "delete"
       /\ last'.args.options.allow_deleting_non_empty_trees
       /\ last'.args.fault = NoFault
       /\ NonEmptyTreeAt(View, last'.args.path, last'.args.key))
      => LET p == last'.args.path
             k == last'.args.key
         IN /\ last'.err = ""
            /\ get(View', p, k) = Err("PathKeyNotFound")
            /\ \A q \in Paths, x \in Keys :
                 (IsPrefix(Append(p, k), q) /\ Stored(View, q, x))
                   => get(View', q, x) = Err("PathNotFound")
            /\ \A x \in Keys \ {k} :
                 Stored(View, p, x) => /\ get_raw(View', p, x) = Ok(View[p][x].el)
                                       /\ get(View', p, x) = get(View, p, x) ]_vars

C4_Witness ==
  /\ last.op = "delete" /\ last.err = "" /\ last.args.fault = NoFault
  /\ last.args.options.allow_deleting_non_empty_trees
  /\ last.args.path = <<>> /\ last.args.key = K1
  /\ get(View, <<>>, K1) = Err("PathKeyNotFound")
  /\ get(View, <<K1, K1, K1>>, K1) = Ok(Cat)

\* ancestors delete_up_tree_while_empty is to delete above the Merk at p: the
\* element naming a Merk only when that Merk holds nothing but the keys
\* scheduled below it, and none once the path length is the stop height
RECURSIVE AncestorCount(_, _, _, _)
AncestorCount(s, p, stop, scheduled) ==
  IF p = <<>> THEN 0
  ELSE IF stop # NoStop /\ Len(Front(p)) = stop THEN 0
  ELSE IF ~(MerkKeys(s, p) \subseteq scheduled) THEN 0
  ELSE 1 + AncestorCount(s, Front(p), stop, {Last(p)})

\* the element at (path, key) and the ancestors above it
UpCount(s, path, key, stop) ==
  IF stop # NoStop /\ Len(path) = stop THEN 0
  ELSE 1 + AncestorCount(s, path, stop, {key})

\* the (path, key) of the first n elements on the way up from (path, key)
RECURSIVE UpSlots(_, _, _)
UpSlots(path, key, n) ==
  IF n = 0 THEN {}
  ELSE {<<path, key>>} \cup (IF path = <<>> THEN {}
                            ELSE UpSlots(Front(path), Last(path), n - 1))

\* C5: a successful delete_up_tree_while_empty deletes the element and, going
\* up, each ancestor element whose Merk is empty once the keys scheduled by the
\* call are discounted, stopping at the first non-empty Merk or at the stop
\* height; it returns the number deleted and every other stored element that
\* is not below a deleted one stays in place.
C5_DeleteUpTree ==
  [][ (last'.op = "delete_up_tree_while_empty" /\ last'.err = "")
      => LET p == last'.args.path
             k == last'.args.key
             n == UpCount(View, p, k, last'.args.stop)
             gone == UpSlots(p, k, n)
         IN /\ last'.val = n
            /\ \A g \in gone : ~Stored(View', g[1], g[2])
            /\ \A q \in Paths, x \in Keys :
                 (/\ Stored(View, q, x)
                  /\ \A g \in gone : ~IsPrefix(Append(g[1], g[2]), Append(q, x)))
                   => (Stored(View', q, x) /\ View'[q][x].el = View[q][x].el) ]_vars

C5_Witness ==
  /\ last.op = "delete_up_tree_while_empty" /\ last.err = "" /\ last.val = 2
  /\ last.args.path = <<K1, K1>> /\ last.args.key = K2 /\ last.args.stop = 0
  /\ MerkKeys(View, <<K1, K1>>) = {K1}
  /\ get(View, <<K1>>, K1) = Err("PathKeyNotFound")

\* C6: a delete, delete_if_empty_tree or delete_up_tree_while_empty that
\* returns an error leaves every read, with and without the transaction, as it
\* was before the call.
C6_ErrorPersistsNothing ==
  [][ (/\ last'.op \in {"delete", "delete_if_empty_tree", "delete_up_tree_while_empty"}
       /\ last'.err # "")
      => (Contents(db') = Contents(db) /\ Contents(txdb') = Contents(txdb)) ]_vars

C6_Witness ==
  /\ last.op = "delete" /\ ~last.tx /\ last.err # "" /\ last.args.fault = 1
  /\ last.args.path = <<>> /\ last.args.key = K1
  /\ get_raw(db, <<>>, K1) = Ok(Tree(NoFlags))
  /\ get_raw(db, <<K1>>, K2) = Err("PathKeyNotFound")
  /\ built = Len(BuildSlots)

DeleteOpFor(el, path, key) ==
  GroveDbOp(IF IsTree(el) THEN "DeleteTree" ELSE "Delete", path, key)

SingleDeletionMatches(s, path, key, transaction) ==
  LET direct == delete(s, path, key, DefaultDeleteOptions, transaction, NoFault)
      batch == apply_batch(s, <<DeleteOpFor(s[path][key].el, path, key)>>, NoFault)
  IN /\ direct.err = "" /\ batch.err = ""
     /\ direct.cost = batch.cost
     /\ root_hash(direct.s, <<>>) = root_hash(batch.s, <<>>)

FreshlyInserted ==
  /\ last.op = "insert" /\ last.err = ""
  /\ Stored(View, last.args.path, last.args.key)
  /\ LET el == View[last.args.path][last.args.key].el IN
     \/ el.t = "Item"
     \/ /\ el.t = "Tree" /\ Len(last.args.path) < MaxDepth
        /\ is_empty_tree(View, Append(last.args.path, last.args.key))

\* the elements of the golden tests and the bytes they take: key footprint,
\* value footprint, parent hook
GoldenBytes ==
  << [el |-> Tree(NoFlags), key |-> 37, value |-> 37, hook |-> 39, total |-> 113],
     [el |-> Cat, key |-> 37, value |-> 71, hook |-> 39, total |-> 147],
     [el |-> Tree(DogFlags), key |-> 37, value |-> 41, hook |-> 39, total |-> 117] >>

ExecutedSeeks(s, path, key, stop_path_height, validate) ==
  LET maybe_ops == add_delete_operations_for_delete_up_tree_while_empty(
                     s, path, key, stop_path_height, validate, <<>>)
  IN add_delete_operations_seeks(s, path, key, stop_path_height, validate, <<>>)
       + (IF maybe_ops.err = "" /\ maybe_ops.some
          THEN apply_batch_seeks(s, maybe_ops.ops) ELSE 0)

\* C12: the OperationCost delete_up_tree_while_empty returns, on success and
\* on every error path, is the sum of the costs of the sub-operations it ran:
\* the planning of the delete operations and the application of the batch.
C12_CostIsSumOfSubOperations ==
  [][ last'.op = "delete_up_tree_while_empty"
      => last'.seek = ExecutedSeeks(View, last'.args.path, last'.args.key,
                                    last'.args.stop, TRUE) ]_vars

C12_Witness ==
  /\ last.op = "delete_up_tree_while_empty" /\ last.err = "" /\ last.val = 1
  /\ last.args.path = <<K1, K1>> /\ last.args.key = K2
  /\ last.seek = 1

\* ---------------------------------------------------------------- chunk scenarios
\* a Merk committed with the keys 1..n, its raw iterator at the first row
Committed(family, height) ==
  [op |-> "commit", family |-> family, height |-> height,
   proof |-> <<>>, has_more |-> FALSE,
   pos |-> 1, from |-> 1, end_key |-> NoKey, calls |-> 0, emitted |-> <<>>, ends |-> <<>>,
   err |-> "", verified |-> 0, counts |-> [Hash |-> 0, KVHash |-> 0, KV |-> 0],
   expected |-> ZeroHash, reconstructed |-> ZeroHash]

MerkOf(c) == MakeTree(c.family, c.height, 1)

ChunkInit ==
  /\ db = EmptyStore
  /\ txdb = EmptyStore
  /\ tx = "none"
  /\ built = 0
  /\ ops = 0
  /\ clean = TRUE
  /\ ref = NoRef
  /\ \E family \in Families : \E height \in 1..MaxHeight :
       chunk = Committed(family, height)
  /\ NoUnits
  /\ last = NoCall

\* merk.walk(|w| w.create_trunk_proof())
CreateTrunkProof ==
  /\ chunk.op = "commit"
  /\ LET made == create_trunk_proof(MerkOf(chunk)) IN
       chunk' = [chunk EXCEPT !.op = "create_trunk_proof", !.proof = made.proof,
                              !.has_more = made.has_more]
  /\ UNCHANGED <<db, txdb, tx, built, ops, clean, ref, units, last>>

\* verify_trunk on the ops of the trunk proof
VerifyTrunk ==
  /\ chunk.op = "create_trunk_proof"
  /\ LET v == verify_trunk(chunk.proof) IN
       chunk' = [chunk EXCEPT !.op = "verify_trunk", !.err = v.err,
                              !.verified = v.height,
                              !.reconstructed = proof_tree_hash(v.tree),
                              !.counts = [Hash |-> CountNodes(v.tree, "Hash"),
                                          KVHash |-> CountNodes(v.tree, "KVHash"),
                                          KV |-> CountNodes(v.tree, "KVValueHashFeatureType")]]
  /\ UNCHANGED <<db, txdb, tx, built, ops, clean, ref, units, last>>

\* the keys of the pushes of a chunk, in order
PushedKeys(proof) ==
  LET pushes == SelectSeq(proof, LAMBDA op : op.op = "Push")
  IN [i \in 1..Len(pushes) |-> pushes[i].node.key]

\* the end keys tried: none, the root and its children, a key past the last
EndKeys(t) == {NoKey, t.key, t.left.key, t.right.key, TreeSize(chunk.family, chunk.height) + 1}

\* get_next_chunk on the iterator of the Merk
GetNextChunk ==
  /\ chunk.op \in {"commit", "get_next_chunk"}
  /\ chunk.height <= MaxLeafHeight
  /\ chunk.calls < MaxChunks
  /\ \E end_key \in EndKeys(MerkOf(chunk)) :
       LET rows == Rows(MerkOf(chunk))
           got == get_next_chunk(rows, chunk.pos, end_key)
           hit == got.pos > chunk.pos + Len(PushedKeys(got.chunk))
       IN chunk' = [chunk EXCEPT !.op = "get_next_chunk", !.proof = got.chunk,
                                 !.from = chunk.pos, !.pos = got.pos,
                                 !.end_key = end_key, !.calls = @ + 1,
                                 !.emitted = @ \o PushedKeys(got.chunk),
                                 !.ends = IF hit THEN Append(@, rows[got.pos - 1].key) ELSE @]
  /\ UNCHANGED <<db, txdb, tx, built, ops, clean, ref, units, last>>

\* the chunk with the node of its i-th op pushed as another variant
Repushed(proof, i, variant) ==
  LET key == proof[i].node.key
      hash == IF variant = "Hash" THEN node_hash(kv_hash(key), ZeroHash, ZeroHash)
              ELSE kv_hash(key)
  IN [proof EXCEPT ![i] = Push(Node(variant, key, hash))]

\* the chunks handed to verify_leaf: the chunk as produced, or with its first
\* or last push made another variant
LeafInputs(proof) ==
  LET at == {i \in DOMAIN proof : proof[i].op = "Push"}
      ends == {i \in at : (\A j \in at : i <= j) \/ (\A j \in at : i >= j)}
  IN {proof} \cup {Repushed(proof, i, variant) :
                     i \in ends, variant \in (FullNodes \cup AbridgedNodes)}

\* the hash of the tree the ops reconstruct, whatever the variants pushed
Reconstructed(proof) == proof_tree_hash(execute(proof, FullNodes \cup AbridgedNodes).tree)

\* verify_leaf on a chunk, with the hash the chunk gives or another one
VerifyLeaf ==
  /\ chunk.op = "get_next_chunk"
  /\ \E input \in LeafInputs(chunk.proof) :
       \E expected_hash \in {Reconstructed(chunk.proof), tree_hash(MakeTree("P", 1, 1)), ZeroHash} :
         LET v == verify_leaf(input, expected_hash) IN
           chunk' = [chunk EXCEPT !.op = "verify_leaf", !.proof = input,
                                  !.expected = expected_hash,
                                  !.reconstructed = Reconstructed(input),
                                  !.err = v.err]
  /\ UNCHANGED <<db, txdb, tx, built, ops, clean, ref, units, last>>

\* the pushes forged: the first and the last push of every variant, and the
\* push of the root
ForgedAt(proof, root_key) ==
  LET at(variant) == {i \in DOMAIN proof : proof[i].op = "Push" /\ proof[i].node.t = variant}
      ends(S) == {i \in S : (\A j \in S : i <= j) \/ (\A j \in S : i >= j)}
  IN UNION {ends(at(variant)) : variant \in FullNodes \cup AbridgedNodes}
       \cup {i \in at("KVValueHashFeatureType") : proof[i].node.key = root_key}

\* verify_trunk on the ops of the trunk proof with one of its pushes made any
\* of the variants
VerifyForgedTrunk ==
  /\ chunk.op = "create_trunk_proof"
  /\ \E i \in ForgedAt(chunk.proof, MerkOf(chunk).key) :
       \E variant \in (FullNodes \cup AbridgedNodes) :
         LET forged == Repushed(chunk.proof, i, variant)
             v == verify_trunk(forged)
         IN chunk' = [chunk EXCEPT !.op = "verify_forged_trunk", !.proof = forged,
                                   !.err = v.err, !.verified = v.height]
  /\ UNCHANGED <<db, txdb, tx, built, ops, clean, ref, units, last>>

ChunkNext ==
  CreateTrunkProof \/ VerifyTrunk \/ GetNextChunk \/ VerifyLeaf \/ VerifyForgedTrunk

SpecChunk == ChunkInit /\ [][ChunkNext]_vars

\* ---------------------------------------------------------------- chunk claims
\* C13: verify_leaf(ops, expected_hash) returns an error whenever the hash of
\* the tree reconstructed from ops differs from expected_hash; it returns
\* Ok(tree) only when the reconstructed hash equals expected_hash.
C13_LeafHashChecked ==
  (chunk.op = "verify_leaf" /\ chunk.err = "") => chunk.reconstructed = chunk.expected

\* verify_leaf returned Ok on the 15-node left half of the 31-key tree with an
\* expected hash that is not the hash of the reconstructed tree
C13_Witness ==
  /\ chunk.op = "verify_leaf"
  /\ chunk.err = ""
  /\ Len(PushedKeys(chunk.proof)) = 15
  /\ chunk.reconstructed # ZeroHash
  /\ chunk.expected = ZeroHash

HasAbridgedPush(proof) ==
  \E i \in DOMAIN proof : proof[i].op = "Push" /\ proof[i].node.t \in AbridgedNodes

\* C14: verify_leaf returns an error for every op stream that pushes a Hash,
\* KVHash, KVDigest or KVRefValueHash node, and it never rejects the nodes of
\* a stream that pushes only KV, KVValueHash and KVValueHashFeatureType nodes.
C14_AbridgedRejected ==
  chunk.op = "verify_leaf" =>
    /\ HasAbridgedPush(chunk.proof) => chunk.err # ""
    /\ chunk.err = "OldChunkRestoringError" => HasAbridgedPush(chunk.proof)

\* a chunk that reconstructs a tree with the expected hash is rejected for
\* the abridged node it pushes
C14_Witness ==
  /\ chunk.op = "verify_leaf"
  /\ HasAbridgedPush(chunk.proof)
  /\ chunk.reconstructed # ZeroHash
  /\ chunk.reconstructed = chunk.expected
  /\ chunk.err = "OldChunkRestoringError"

\* the number of nodes on the leftmost path of a tree
RECURSIVE LeftmostPath(_)
LeftmostPath(t) == IF ~IsSome(t) THEN 0 ELSE 1 + LeftmostPath(t.left)

\* C15: for every committed AVL tree the ops of create_trunk_proof are
\* accepted by verify_trunk, the height verify_trunk derives equals the number
\* of nodes on the tree's leftmost path, the verified tree hashes to the
\* tree's hash, and the verifier takes the chunk for an abridged trunk exactly
\* when the generator announced more chunks.
C15_TrunkRoundtrip ==
  chunk.op = "verify_trunk" =>
    /\ chunk.err = ""
    /\ chunk.verified = LeftmostPath(MerkOf(chunk))
    /\ chunk.reconstructed = tree_hash(MerkOf(chunk))
    /\ chunk.has_more <=> chunk.verified \div 2 >= MIN_TRUNK_HEIGHT
    /\ chunk.has_more <=> chunk.counts.Hash + chunk.counts.KVHash > 0

\* an abridged trunk of a left-heavy tree, verified with the height of its
\* leftmost path
C15_Witness ==
  /\ chunk.op = "verify_trunk"
  /\ chunk.family = "L"
  /\ chunk.err = ""
  /\ chunk.has_more
  /\ chunk.verified = 2 * MIN_TRUNK_HEIGHT
  /\ chunk.counts.KVHash = MIN_TRUNK_HEIGHT

\* the keys of the nodes of a tree down to a depth, in key order
RECURSIVE TrunkKeys(_, _)
TrunkKeys(t, depth) ==
  IF ~IsSome(t) \/ depth = 0 THEN <<>>
  ELSE TrunkKeys(t.left, depth - 1) \o <<t.key>> \o TrunkKeys(t.right, depth - 1)

\* the keys of the pushes of one variant, in order
PushedAs(proof, variant) ==
  PushedKeys(SelectSeq(proof, LAMBDA op : op.op = "Push" /\ op.node.t = variant))

Abridges(proof) ==
  \E i \in DOMAIN proof : proof[i].op = "Push" /\ proof[i].node.t \in {"Hash", "KVHash"}

\* create_trunk_proof measured against a trunk height h
TrunkProofFor(h) ==
  IF h < MIN_TRUNK_HEIGHT
  THEN /\ ~chunk.has_more
       /\ ~Abridges(chunk.proof)
       /\ PushedAs(chunk.proof, "KVValueHashFeatureType")
            = TrunkKeys(MerkOf(chunk), chunk.height)
  ELSE /\ chunk.has_more
       /\ Abridges(chunk.proof)
       /\ PushedAs(chunk.proof, "KVValueHashFeatureType") = TrunkKeys(MerkOf(chunk), h)

\* C16 as stated: create_trunk_proof returns has_more = false with every node
\* of the tree as a KVValueHashFeatureType node and no Hash or KVHash node
\* exactly when h = tree.height()/2 < MIN_TRUNK_HEIGHT, and otherwise
\* has_more = true with a trunk of depth h.
C16_TrunkHeightIsTreeHeight ==
  chunk.op = "create_trunk_proof" => TrunkProofFor(MerkOf(chunk).height \div 2)

\* C16 amended: the same with h = (number of nodes on the leftmost path)/2,
\* the trunk height traverse_for_height_proof measures.
C16_TrunkHeightIsLeftEdge ==
  chunk.op = "create_trunk_proof" => TrunkProofFor(LeftmostPath(MerkOf(chunk)) \div 2)

\* a right-heavy tree of height 2 * MIN_TRUNK_HEIGHT whose leftmost path has
\* MIN_TRUNK_HEIGHT nodes is emitted whole
C16_Witness ==
  /\ chunk.op = "create_trunk_proof"
  /\ chunk.family = "R"
  /\ MerkOf(chunk).height = 2 * MIN_TRUNK_HEIGHT
  /\ LeftmostPath(MerkOf(chunk)) = MIN_TRUNK_HEIGHT
  /\ ~chunk.has_more
  /\ Len(PushedAs(chunk.proof, "KVValueHashFeatureType")) = TreeSize("R", chunk.height)

\* C17: for the balanced tree of 2^(2*MIN_TRUNK_HEIGHT+1) - 1 sequential keys
\* create_trunk_proof returns has_more = true and the verified trunk has
\* exactly 2^MIN_TRUNK_HEIGHT + MIN_TRUNK_HEIGHT - 1 Hash nodes,
\* 2^MIN_TRUNK_HEIGHT - 1 KVValueHashFeatureType nodes and
\* MIN_TRUNK_HEIGHT + 1 KVHash nodes.
C17_BigTrunkCounts ==
  (/\ chunk.op = "verify_trunk"
   /\ chunk.family = "P"
   /\ chunk.height = 2 * MIN_TRUNK_HEIGHT + 1)
  => /\ TreeSize("P", chunk.height) = Pow(2, 2 * MIN_TRUNK_HEIGHT + 1) - 1
     /\ LeftmostPath(MerkOf(chunk)) = 2 * MIN_TRUNK_HEIGHT + 1
     /\ chunk.has_more
     /\ chunk.err = ""
     /\ chunk.counts = [Hash |-> Pow(2, MIN_TRUNK_HEIGHT) + MIN_TRUNK_HEIGHT - 1,
                        KVHash |-> MIN_TRUNK_HEIGHT + 1,
                        KV |-> Pow(2, MIN_TRUNK_HEIGHT) - 1]

\* the trunk of the 2047-key tree is verified
C17_Witness ==
  /\ chunk.op = "verify_trunk"
  /\ chunk.family = "P"
  /\ chunk.height = 11
  /\ chunk.counts.Hash = 36

\* the row a call stops at: the first row from the iterator's position whose
\* key is the end key, or past the last row
StopRow(rows, from, end_key) ==
  LET at == {i \in from..Len(rows) : end_key # NoKey /\ rows[i].key = end_key}
  IN IF at = {} THEN Len(rows) + 1 ELSE CHOOSE i \in at : \A j \in at : i <= j

SeqRange(s) == {s[i] : i \in DOMAIN s}

\* C18: get_next_chunk pushes exactly one KVValueHashFeatureType node, in
\* ascending key order, for every row from the iterator's position up to but
\* excluding the row of end_key (up to the end when end_key is None or
\* absent) and leaves the iterator just after end_key; over successive calls
\* every key other than the end keys is in exactly one chunk, none skipped or
\* repeated, and 31 keys split at the root key give chunks of 15 and 15.
C18_ChunksPartitionRows ==
  chunk.op = "get_next_chunk" =>
    LET rows == Rows(MerkOf(chunk))
        stop == StopRow(rows, chunk.from, chunk.end_key)
        pushed == PushedKeys(chunk.proof)
    IN /\ \A i \in DOMAIN chunk.proof :
            chunk.proof[i].op = "Push" => chunk.proof[i].node.t = "KVValueHashFeatureType"
       /\ pushed = [i \in 1..(stop - chunk.from) |-> rows[chunk.from + i - 1].key]
       /\ \A i \in 1..(Len(pushed) - 1) : pushed[i] < pushed[i + 1]
       /\ chunk.pos = IF stop <= Len(rows) THEN stop + 1 ELSE Len(rows) + 1
       /\ \A i, j \in DOMAIN chunk.emitted : i < j => chunk.emitted[i] < chunk.emitted[j]
       /\ SeqRange(chunk.emitted) \cap SeqRange(chunk.ends) = {}
       /\ SeqRange(chunk.emitted) \cup SeqRange(chunk.ends)
            = {rows[i].key : i \in 1..(chunk.pos - 1)}
       /\ (chunk.family = "P" /\ chunk.height = 5 /\ chunk.end_key = MerkOf(chunk).key
           /\ chunk.from = 1) => Len(pushed) = 15
       /\ (chunk.family = "P" /\ chunk.height = 5 /\ chunk.end_key = NoKey
           /\ chunk.from = MerkOf(chunk).key + 1) => Len(pushed) = 15

\* the 31-key tree after a chunk up to the root key and a chunk to the end
C18_Witness ==
  /\ chunk.op = "get_next_chunk"
  /\ TreeSize(chunk.family, chunk.height) = 31
  /\ chunk.calls = 2
  /\ chunk.ends = <<16>>
  /\ Len(chunk.emitted) = 30
  /\ PushedKeys(chunk.proof) = [i \in 1..15 |-> 16 + i]

\* ---------------------------------------------------------------- path error claims
\* the upward walk of delete_up_tree_while_empty comes to plan a deletion at
\* the empty path: no level before is at the stop height, fails or plans
\* nothing
RECURSIVE WalkReachesRoot(_, _, _, _, _)
WalkReachesRoot(s, path, key, stop, batch) ==
  IF stop # NoStop /\ stop = Len(path) THEN FALSE
  ELSE IF path = <<>> THEN TRUE
  ELSE LET this_level == delete_operation_for_delete_internal(
                           s, path, key, IfEmptyTreeOptions, TRUE, batch)
       IN /\ check_subtree_exists_path_not_found(s, path) = "Ok"
          /\ this_level.err = "" /\ this_level.some
          /\ WalkReachesRoot(s, Front(path), Last(path), stop, Append(batch, this_level.op))

RootLeafCall(call) ==
  \/ call.op \in {"delete", "delete_if_empty_tree"} /\ call.args.path = <<>>
  \/ /\ call.op = "delete_up_tree_while_empty"
     /\ WalkReachesRoot(View, call.args.path, call.args.key, call.args.stop, <<>>)

\* C19 as stated: deleting an element addressed with the empty path is
\* rejected with InvalidPath and removes nothing, through delete,
\* delete_if_empty_tree and the delete-operation planner alike.
C19_RootLeafRejected ==
  [][ RootLeafCall(last') => (last'.err = "InvalidPath" /\ db' = db /\ txdb' = txdb) ]_vars

\* C19 amended: the delete-operation planner rejects the empty path with
\* InvalidPath, and so does delete_up_tree_while_empty, removing nothing, when
\* its upward walk reaches the empty path; delete and delete_if_empty_tree
\* accept the empty path, never answer it with InvalidPath, and remove an
\* item or empty tree stored at the root.
C19_RootLeafRejectedByPlanner ==
  [][ /\ \A key \in Keys, validate \in BOOLEAN :
           delete_operation_for_delete_internal(
             View, <<>>, key, IfEmptyTreeOptions, validate, <<>>).err = "InvalidPath"
      /\ (last'.op = "delete_up_tree_while_empty" /\ RootLeafCall(last'))
           => (last'.err = "InvalidPath" /\ db' = db /\ txdb' = txdb)
      /\ (last'.op \in {"delete", "delete_if_empty_tree"} /\ RootLeafCall(last'))
           => /\ last'.err # "InvalidPath"
              /\ (/\ Stored(View, <<>>, last'.args.key)
                  /\ ~NonEmptyTreeAt(View, <<>>, last'.args.key)
                  /\ last'.args.fault = NoFault)
                 => (/\ last'.err = "" /\ last'.val = 1
                     /\ ~Stored(View', <<>>, last'.args.key)) ]_vars

\* delete_up_tree_while_empty walked from a deletable element of a root
\* leaf's Merk up to the empty path and failed there
C19_Witness ==
  /\ last.op = "delete_up_tree_while_empty"
  /\ last.args.path = <<K1>> /\ last.args.stop = NoStop
  /\ last.err = "InvalidPath"
  /\ WalkReachesRoot(View, <<K1>>, last.args.key, NoStop, <<>>)
  /\ Stored(View, <<K1>>, last.args.key)

\* C20: delete_up_tree_while_empty fails with
\* DeleteUpTreeStopHeightMoreThanInitialPathSize, deleting nothing, exactly
\* when the stop_path_height supplied is greater than the length of the
\* initial path; with a stop_path_height not greater than the path length it
\* does not return that error.
C20_StopHeightError ==
  [][ (last'.op = "delete_up_tree_while_empty" /\ last'.args.stop # NoStop)
      => /\ last'.err = "DeleteUpTreeStopHeightMoreThanInitialPathSize"
              <=> last'.args.stop > Len(last'.args.path)
         /\ last'.err = "DeleteUpTreeStopHeightMoreThanInitialPathSize"
              => (db' = db /\ txdb' = txdb) ]_vars

\* the error returned for a stop height equal to the length of the path
C20_Witness ==
  /\ last.op = "delete_up_tree_while_empty"
  /\ last.err = "DeleteUpTreeStopHeightMoreThanInitialPathSize"
  /\ last.args.path = <<K1>> /\ last.args.stop = 1
  /\ Stored(View, <<K1>>, last.args.key)

\* ---------------------------------------------------------------- Merk apply
\* most keys of the Merk of the root hash scenarios
MaxKey == 4

\* right height less left height
balance_factor(t) == t.right.height - t.left.height

\* the child on one side becomes the root, its inner grandchild changes parent
rotate(t, left) ==
  IF left
  THEN TreeNode(t.left.key, t.left.left, TreeNode(t.key, t.left.right, t.right))
  ELSE TreeNode(t.right.key, TreeNode(t.key, t.left, t.right.left), t.right.right)

\* single or double rotation when the heights of the children differ by 2
maybe_balance(t) ==
  LET left == balance_factor(t) < 0
      tall == IF left THEN t.left ELSE t.right
      inner == IF left THEN balance_factor(tall) > 0 ELSE balance_factor(tall) < 0
  IN IF balance_factor(t) \in {0 - 1, 0, 1} THEN t
     ELSE IF ~inner THEN rotate(t, left)
     ELSE IF left THEN rotate(TreeNode(t.key, rotate(t.left, FALSE), t.right), TRUE)
     ELSE rotate(TreeNode(t.key, t.left, rotate(t.right, TRUE)), FALSE)

\* Put: descend by key comparison, insert at the leaf position, rebalance on
\* the way back
RECURSIVE put(_, _)
put(t, key) ==
  IF ~IsSome(t) THEN TreeNode(key, NoTree, NoTree)
  ELSE IF key = t.key THEN t
  ELSE IF key < t.key THEN maybe_balance(TreeNode(t.key, put(t.left, key), t.right))
  ELSE maybe_balance(TreeNode(t.key, t.left, put(t.right, key)))

\* the key at the far end of one side
RECURSIVE edge_key(_, _)
edge_key(t, left) ==
  IF left THEN (IF IsSome(t.left) THEN edge_key(t.left, left) ELSE t.key)
  ELSE (IF IsSome(t.right) THEN edge_key(t.right, left) ELSE t.key)

\* Delete: a node with two children is replaced by the in-order neighbour
\* taken from its taller side, one with a single child by that child
RECURSIVE remove(_, _)
remove(t, key) ==
  IF ~IsSome(t) THEN t
  ELSE IF key < t.key THEN maybe_balance(TreeNode(t.key, remove(t.left, key), t.right))
  ELSE IF key > t.key THEN maybe_balance(TreeNode(t.key, t.left, remove(t.right, key)))
  ELSE IF ~IsSome(t.left) THEN t.right
  ELSE IF ~IsSome(t.right) THEN t.left
  ELSE IF t.left.height > t.right.height
  THEN LET promoted == edge_key(t.left, FALSE) IN
       maybe_balance(TreeNode(promoted, remove(t.left, promoted), t.right))
  ELSE LET promoted == edge_key(t.right, TRUE) IN
       maybe_balance(TreeNode(promoted, t.left, remove(t.right, promoted)))

\* the keys of a tree
RECURSIVE tree_keys(_)
tree_keys(t) == IF ~IsSome(t) THEN {} ELSE tree_keys(t.left) \cup {t.key} \cup tree_keys(t.right)

\* |height(L) - height(R)| <= 1 at every node
RECURSIVE Balanced(_)
Balanced(t) ==
  ~IsSome(t) \/ (/\ balance_factor(t) \in {0 - 1, 0, 1}
                 /\ Balanced(t.left) /\ Balanced(t.right))

\* ---------------------------------------------------------------- root hash scenarios
\* the Merk at a path P, its root hash before the last insert, whether only
\* inserts were made
MerkInit ==
  /\ db = EmptyStore
  /\ txdb = EmptyStore
  /\ tx = "none"
  /\ built = 0
  /\ ops = 0
  /\ clean = TRUE
  /\ ref = NoRef
  /\ chunk = NoChunk
  /\ merk = [op |-> "open", tree |-> NoTree, key |-> NoKey, before |-> ZeroHash,
             inserts_only |-> TRUE]
  /\ spath = NoSubtreePath
  /\ pquery = NoPathQuery
  /\ brange = NoBinaryRange
  /\ sctx = NoContext
  /\ last = NoCall

\* insert of an element under a new key
MerkInsert ==
  /\ \E key \in (1..MaxKey) \ tree_keys(merk.tree) :
       merk' = [merk EXCEPT !.op = "insert", !.key = key,
                            !.before = tree_hash(merk.tree),
                            !.tree = put(merk.tree, key)]
  /\ UNCHANGED <<db, txdb, tx, built, ops, clean, ref, chunk, spath, pquery, brange, sctx, last>>

\* delete of a stored element; "insert_delete" when it is the element the
\* call before inserted
MerkDelete ==
  /\ \E key \in tree_keys(merk.tree) :
       LET undo == merk.op = "insert" /\ merk.key = key IN
       merk' = [merk EXCEPT !.op = IF undo THEN "insert_delete" ELSE "delete",
                            !.key = key,
                            !.before = IF undo THEN @ ELSE tree_hash(merk.tree),
                            !.tree = remove(merk.tree, key),
                            !.inserts_only = FALSE]
  /\ UNCHANGED <<db, txdb, tx, built, ops, clean, ref, chunk, spath, pquery, brange, sctx, last>>

MerkNext == MerkInsert \/ MerkDelete

SpecMerk == MerkInit /\ [][MerkNext]_vars

\* ---------------------------------------------------------------- root hash claims
\* C21: inserting an element at a path and then deleting it leaves the root
\* hash equal to its value before the insert.
C21_InsertDeleteRestoresRootHash ==
  merk.op = "insert_delete" => tree_hash(merk.tree) = merk.before

\* keys 1 and 2 were stored with 1 at the root; 3 was inserted and deleted,
\* and 2 is at the root
C21_Witness ==
  /\ merk.op = "insert_delete" /\ merk.key = 3
  /\ tree_keys(merk.tree) = {1, 2}
  /\ merk.tree.key = 2
  /\ merk.before = tree_hash(TreeNode(1, NoTree, TreeNode(2, NoTree, NoTree)))
  /\ Balanced(merk.tree)

\* the Merk the inserts of a set of keys in ascending order build
RECURSIVE PutAscending(_, _)
PutAscending(keys, upto) ==
  IF upto = 0 THEN NoTree
  ELSE IF upto \in keys THEN put(PutAscending(keys, upto - 1), upto)
  ELSE PutAscending(keys, upto - 1)

\* C22: the root hash depends only on the set of elements stored and not on
\* the order of the inserts: the hash after any sequence of inserts is the
\* hash after the inserts of the same elements in ascending key order.
C22_RootHashOfSet ==
  (merk.op = "insert" /\ merk.inserts_only)
    => tree_hash(merk.tree) = tree_hash(PutAscending(tree_keys(merk.tree), MaxKey))

\* the inserts 2, 1 leave key 2 at the root, the inserts 1, 2 of the same keys
\* leave key 1 there
C22_Witness ==
  /\ merk.op = "insert" /\ merk.inserts_only /\ merk.key = 1
  /\ tree_keys(merk.tree) = {1, 2}
  /\ Balanced(merk.tree)
  /\ merk.tree.key = 2
  /\ PutAscending({1, 2}, 2).key = 1

\* ---------------------------------------------------------------------------
\* Subtree paths (path/src/lib.rs)
\* ---------------------------------------------------------------------------

\* the longest slice a path is initialised from
MaxSliceLen == 2
\* the number of derivations applied to one path
MaxDerive == 3

\* the path segments: byte strings, one of them empty and one a prefix of
\* another
Segments == {<<>>, <<1>>, <<1, 2>>}

RECURSIVE SlicesUpTo(_)
SlicesUpTo(n) ==
  IF n = 0 THEN {<<>>}
  ELSE LET r == SlicesUpTo(n - 1) IN r \cup {Append(s, x) : s \in r, x \in Segments}

\* CowLike: a borrowed or an owned segment, dereferenced to the same bytes
Borrowed(segment) == [tag |-> "Borrowed", bytes |-> segment]
Owned(segment) == [tag |-> "Owned", bytes |-> segment]
deref(cow) == cow.bytes

\* SubtreePathBase and SubtreePathRelative; a slice is one of vectors or one of
\* byte slices
Slice(slice, vecs) == [tag |-> "Slice", slice |-> slice, vecs |-> vecs]
DerivedPath(p) == [tag |-> "DerivedPath", path |-> p]
Empty == [tag |-> "Empty"]
Single(cow) == [tag |-> "Single", cow |-> cow]
SubtreePath(base, relative) == [base |-> base, relative |-> relative]

None == [some |-> FALSE]
Some(v) == [some |-> TRUE, value |-> v]

\* <[u8] as Hash>::hash: the length prefix, then the bytes, written to the
\* hasher; the hasher state is the stream of its writes
hash_bytes(bytes, state) ==
  state \o <<<<"usize", Len(bytes)>>>> \o [i \in 1..Len(bytes) |-> <<"u8", bytes[i]>>]

\* Hash for CowLike: the hash of the bytes it dereferences to
CowLike_hash(cow, state) == hash_bytes(deref(cow), state)

RECURSIVE hash_each(_, _)
hash_each(slice, state) ==
  IF slice = <<>> THEN state
  ELSE hash_each(Tail(slice), hash_bytes(Head(slice), state))

RECURSIVE hash(_, _)
RECURSIVE SubtreePathBase_hash(_, _)

\* a base that hashes its slice as a slice: the number of segments first
SubtreePathBase_hash_slice(base, state) ==
  IF base.tag = "Slice"
  THEN hash_each(base.slice, state \o <<<<"usize", Len(base.slice)>>>>)
  ELSE hash(base.path, state)

SubtreePathBase_hash(base, state) ==
  IF base.tag = "Slice" THEN hash_each(base.slice, state)
  ELSE hash(base.path, state)

SubtreePathRelative_hash(relative, state) ==
  IF relative.tag = "Empty" THEN state
  ELSE CowLike_hash(relative.cow, state)

hash(p, state) ==
  SubtreePathRelative_hash(p.relative, SubtreePathBase_hash(p.base, state))

calculate_hash(p) == hash(p, <<>>)

from_slice(slice, vecs) == SubtreePath(Slice(slice, vecs), Empty)

RECURSIVE derive_parent(_)

\* split_last and the slice rest as a path
SubtreePathBase_parent(base) ==
  IF base.tag = "Slice"
  THEN IF base.slice = <<>> THEN None
       ELSE Some(<<from_slice(SubSeq(base.slice, 1, Len(base.slice) - 1), base.vecs),
                   base.slice[Len(base.slice)]>>)
  ELSE derive_parent(base.path)

\* a parent that keeps the relative segment of the path
derive_parent_keeping(p) ==
  IF p.relative.tag = "Empty" THEN SubtreePathBase_parent(p.base)
  ELSE Some(<<p, deref(p.relative.cow)>>)

derive_parent(p) ==
  IF p.relative.tag = "Empty" THEN SubtreePathBase_parent(p.base)
  ELSE Some(<<SubtreePath(p.base, Empty), deref(p.relative.cow)>>)

derive_child_owned(p, segment) == SubtreePath(DerivedPath(p), Single(Owned(segment)))

derive_child(p, segment) == SubtreePath(DerivedPath(p), Single(Borrowed(segment)))

RECURSIVE to_owned(_)
to_owned(p) ==
  LET result == IF p.base.tag = "Slice" THEN p.base.slice ELSE to_owned(p.base.path)
  IN  IF p.relative.tag = "Empty" THEN result
      ELSE Append(result, deref(p.relative.cow))

\* SubtreePathIter: the current iterator, of one segment or of the rest of a
\* slice, and the base to go on with
SubtreePathIter(current_iter, next_subtree_path) ==
  [current_iter |-> current_iter, next_subtree_path |-> next_subtree_path]

RECURSIVE reverse_iter(_)

SubtreePathBase_reverse_iter(base) ==
  IF base.tag = "Slice"
  THEN SubtreePathIter([tag |-> "Slice", iter |-> base.slice], None)
  ELSE reverse_iter(base.path)

reverse_iter(p) ==
  IF p.relative.tag = "Empty" THEN SubtreePathBase_reverse_iter(p.base)
  ELSE SubtreePathIter([tag |-> "Single", item |-> deref(p.relative.cow)], Some(p.base))

RECURSIVE next(_)

\* Iterator::next: the item, if any, and the iterator after it
next(it) ==
  IF it.current_iter.tag = "Single"
  THEN [item |-> Some(it.current_iter.item),
        iter |-> IF it.next_subtree_path.some
                 THEN SubtreePathBase_reverse_iter(it.next_subtree_path.value)
                 ELSE it]
  ELSE LET slice_iter == it.current_iter.iter IN
       IF slice_iter # <<>>
       THEN [item |-> Some(slice_iter[Len(slice_iter)]),
             iter |-> SubtreePathIter([tag |-> "Slice",
                                       iter |-> SubSeq(slice_iter, 1, Len(slice_iter) - 1)],
                                      it.next_subtree_path)]
       ELSE IF it.next_subtree_path.some
            THEN next(SubtreePathBase_reverse_iter(it.next_subtree_path.value))
            ELSE [item |-> None, iter |-> it]

\* the items an iterator yields within a number of calls of next, and whether
\* it ended within them
RECURSIVE Collect(_, _)
Collect(it, calls) ==
  IF calls = 0 THEN [ended |-> FALSE, items |-> <<>>]
  ELSE LET n == next(it) IN
       IF ~n.item.some THEN [ended |-> TRUE, items |-> <<>>]
       ELSE LET rest == Collect(n.iter, calls - 1)
            IN  [ended |-> rest.ended, items |-> <<n.item.value>> \o rest.items]

\* PartialEq: Iterator::eq of the two reverse iterators
eq(p, q) ==
  Collect(reverse_iter(p), MaxSliceLen + MaxDerive + 2).items
    = Collect(reverse_iter(q), MaxSliceLen + MaxDerive + 2).items

\* ---------------------------------------------------------------------------
\* The path scenarios: a path is initialised from a slice of vectors or of
\* byte slices, and children and parents are derived from it.  The state keeps
\* the path, the operation that made it with its segment, the path it was
\* made of, and the same of the operation before.
\* ---------------------------------------------------------------------------

Derived(op, p, segment, none) ==
  [op |-> op, path |-> p, segment |-> segment, none |-> none,
   steps |-> spath.steps + 1, of |-> spath.path,
   prev_op |-> spath.op, prev_segment |-> spath.segment, prev_of |-> spath.of]

PathInit ==
  /\ db = EmptyStore
  /\ txdb = EmptyStore
  /\ tx = "none"
  /\ built = 0
  /\ ops = 0
  /\ clean = TRUE
  /\ ref = NoRef
  /\ chunk = NoChunk
  /\ merk = NoMerk
  /\ \E slice \in SlicesUpTo(MaxSliceLen), vecs \in BOOLEAN :
       spath = [op |-> "from_slice", path |-> from_slice(slice, vecs),
                segment |-> <<>>, none |-> FALSE, steps |-> 0,
                of |-> from_slice(slice, vecs), prev_op |-> "none",
                prev_segment |-> <<>>, prev_of |-> from_slice(slice, vecs)]
  /\ pquery = NoPathQuery
  /\ brange = NoBinaryRange
  /\ sctx = NoContext
  /\ last = NoCall

PathDeriveChild ==
  /\ spath.op # "none" /\ spath.steps < MaxDerive
  /\ \E segment \in Segments :
       spath' = Derived("derive_child", derive_child(spath.path, segment), segment, FALSE)
  /\ UNCHANGED <<db, txdb, tx, built, ops, clean, ref, chunk, merk, pquery, brange, sctx, last>>

PathDeriveChildOwned ==
  /\ spath.op # "none" /\ spath.steps < MaxDerive
  /\ \E segment \in Segments :
       spath' = Derived("derive_child_owned", derive_child_owned(spath.path, segment),
                        segment, FALSE)
  /\ UNCHANGED <<db, txdb, tx, built, ops, clean, ref, chunk, merk, pquery, brange, sctx, last>>

PathDeriveParent ==
  /\ spath.op # "none" /\ spath.steps < MaxDerive
  /\ LET parent == derive_parent(spath.path) IN
       spath' = IF parent.some
                THEN Derived("derive_parent", parent.value[1], parent.value[2], FALSE)
                ELSE Derived("derive_parent", spath.path, <<>>, TRUE)
  /\ UNCHANGED <<db, txdb, tx, built, ops, clean, ref, chunk, merk, pquery, brange, sctx, last>>

PathNext == PathDeriveChild \/ PathDeriveChildOwned \/ PathDeriveParent

SpecPath == PathInit /\ [][PathNext]_vars

\* ---------------------------------------------------------------------------
\* The path claims
\* ---------------------------------------------------------------------------

\* C23: subtree paths that denote the same segments hash identically however
\* they were built: the hash of every path, initialised from a slice of
\* vectors or of byte slices, derived as the parent of a longer path or as a
\* chain of children of a shorter one, is the hash of the path initialised
\* from the slice of its segments as vectors.
C23_HashOfSegments ==
  spath.op # "none"
    => calculate_hash(spath.path) = calculate_hash(from_slice(to_owned(spath.path), TRUE))

\* the parent of a slice path, then a borrowed and an owned child
C23_Witness ==
  /\ spath.op = "derive_child_owned" /\ spath.prev_op = "derive_child"
  /\ spath.prev_of.base.tag = "Slice" /\ ~spath.prev_of.base.vecs
  /\ spath.prev_of.base.slice = <<<<1>>>>
  /\ spath.of.base.path.base.tag = "Slice"
  /\ to_owned(spath.path) = <<<<1>>, <<>>, <<1, 2>>>>
  /\ calculate_hash(spath.path)
       = <<<<"usize", 1>>, <<"u8", 1>>, <<"usize", 0>>, <<"usize", 2>>, <<"u8", 1>>, <<"u8", 2>>>>

\* the segments reverse_iter yields within more calls of next than the longest
\* path has segments
Iterated(p) == Collect(reverse_iter(p), MaxSliceLen + MaxDerive + 2)

\* C29: derive_parent of a derived child of p returns a path equal to p and
\* the segment of the child; derive_parent of the empty path returns None;
\* reverse_iter ends and yields the segments of to_owned deepest first; two
\* paths are equal exactly when their segments are.
C29_PathAlgebra ==
  spath.op # "none" =>
    /\ (spath.op = "derive_parent"
          /\ spath.prev_op \in {"derive_child", "derive_child_owned"})
         => /\ ~spath.none
            /\ eq(spath.path, spath.prev_of)
            /\ spath.segment = spath.prev_segment
    /\ (spath.op = "derive_parent" /\ to_owned(spath.of) = <<>>) => spath.none
    /\ Iterated(spath.path).ended
    /\ Iterated(spath.path).items = Reverse(to_owned(spath.path))
    /\ \A q \in {spath.of, spath.prev_of, from_slice(to_owned(spath.path), FALSE)} :
         eq(spath.path, q) <=> to_owned(spath.path) = to_owned(q)

\* the parent of an owned child of a borrowed child of a slice path: a derived
\* base without a relative segment, equal to the borrowed child
C29_Witness ==
  /\ spath.op = "derive_parent" /\ spath.prev_op = "derive_child_owned"
  /\ spath.prev_of = derive_child(from_slice(<<<<1, 2>>>>, TRUE), <<>>)
  /\ spath.segment = <<1>>
  /\ spath.path = SubtreePath(DerivedPath(spath.prev_of), Empty)
  /\ spath.path # spath.prev_of
  /\ eq(spath.path, spath.prev_of)
  /\ Iterated(spath.path).items = <<<<>>, <<1, 2>>>>

\* ---------------------------------------------------------------------------
\* Path queries (grovedb/src/query/mod.rs)
\* ---------------------------------------------------------------------------

\* the number of path queries handed to one merge
MaxQueries == 2

\* merk::proofs::Query: the items queried and whether a subquery is set, and,
\* once merged, the conditional subquery branches
Query(items, subquery) == [items |-> items, subquery |-> subquery, conditional |-> {}]
has_subquery(query) == query.subquery

SizedQuery(query, limit, offset) == [query |-> query, limit |-> limit, offset |-> offset]
PathQuery(path, query) == [path |-> path, query |-> query]
new_unsized(path, query) == PathQuery(path, SizedQuery(query, None, None))

SubqueryBranch(subquery_path, subquery) == [subquery_path |-> subquery_path, subquery |-> subquery]

MergeOk(v) == [ok |-> TRUE, err |-> "", msg |-> "", value |-> v]
MergeErr(e, msg) == [ok |-> FALSE, err |-> e, msg |-> msg, value |-> None]

\* the pairs of the two loops of has_subpaths
has_subpaths_pair(path_queries, i, j) ==
  LET path_one == path_queries[i].path
      path_two == path_queries[j].path
      bigger_path == IF Len(path_one) > Len(path_two) THEN path_one ELSE path_two
      smaller_path == IF Len(path_one) > Len(path_two) THEN path_two ELSE path_one
      is_subpath == \A n \in 1..Len(smaller_path) : bigger_path[n] = smaller_path[n]
  IN  \/ /\ Len(path_one) = Len(path_two)
         /\ \/ has_subquery(path_queries[i].query.query)
            \/ has_subquery(path_queries[j].query.query)
      \/ is_subpath /\ Len(path_one) # Len(path_two)

has_subpaths(path_queries) ==
  \E i, j \in 1..Len(path_queries) : i # j /\ has_subpaths_pair(path_queries, i, j)

RECURSIVE common_level(_, _, _)
common_level(path_queries, min_path_length, level) ==
  IF level < min_path_length
       /\ \A i \in 1..Len(path_queries) :
            path_queries[i].path[level + 1] = path_queries[1].path[level + 1]
  THEN common_level(path_queries, min_path_length, level + 1)
  ELSE level

MinOf(S) == CHOOSE x \in S : \A y \in S : x <= y

get_common_path(path_queries) ==
  LET min_path_length == MinOf({Len(path_queries[i].path) : i \in 1..Len(path_queries)})
      level == common_level(path_queries, min_path_length, 0)
  IN  <<SubSeq(path_queries[1].path, 1, level), level>>

to_subquery_branch_with_offset_start_index(path_query, start_index) ==
  IF Len(path_query.path) = start_index
  THEN MergeOk(SubqueryBranch(None, Some(path_query.query.query)))
  ELSE IF Len(path_query.path) < start_index
  THEN MergeErr("CorruptedCodeExecution", "invalid start index for path query merge")
  ELSE MergeOk(SubqueryBranch(
         Some(SubSeq(path_query.path, start_index + 1, Len(path_query.path))),
         Some(path_query.query.query)))

\* the closure of try_for_each on one path query
merge_branch(path_query, next_index) ==
  IF path_query.query.offset.some
  THEN MergeErr("NotSupported", "can not merge pathqueries with offsets")
  ELSE IF path_query.query.limit.some
  THEN MergeErr("NotSupported", "can not merge pathqueries with limits")
  ELSE to_subquery_branch_with_offset_start_index(path_query, next_index)

\* Query::merge_multiple: the items and the subqueries of the queries together
merge_multiple(queries) ==
  [items |-> UNION {queries[i].items : i \in 1..Len(queries)},
   subquery |-> \E i \in 1..Len(queries) : queries[i].subquery,
   conditional |-> {}]

\* the key inserted and the conditional branch merged for one sub level branch
merge_conditional_boxed_subquery(merged_query, branch) ==
  LET subquery_path == branch.subquery_path.value
      key == Head(subquery_path)
      rest_of_path == IF Tail(subquery_path) = <<>> THEN None ELSE Some(Tail(subquery_path))
  IN  [merged_query EXCEPT
         !.items = @ \cup {key},
         !.conditional = @ \cup {<<key, SubqueryBranch(rest_of_path, branch.subquery)>>}]

RECURSIVE merge_sub_level(_, _)
merge_sub_level(merged_query, branches) ==
  IF branches = <<>> THEN merged_query
  ELSE merge_sub_level(merge_conditional_boxed_subquery(merged_query, Head(branches)),
                       Tail(branches))

\* PathQuery::merge
merge(path_queries) ==
  IF path_queries = <<>>
  THEN MergeErr("InvalidInput", "merge function requires at least 1 path query")
  ELSE IF Len(path_queries) = 1 THEN MergeOk(path_queries[1])
  ELSE
    LET common == get_common_path(path_queries)
        common_path == common[1]
        next_index == common[2]
        branches == [i \in 1..Len(path_queries) |-> merge_branch(path_queries[i], next_index)]
        failed == {i \in 1..Len(path_queries) : ~branches[i].ok}
        IsThisLevel(b) == ~b.value.subquery_path.some
        IsSubLevel(b) == b.value.subquery_path.some
        queries_for_common_path_this_level == SelectSeq(branches, IsThisLevel)
        queries_for_common_path_sub_level == SelectSeq(branches, IsSubLevel)
        merged_query ==
          merge_multiple([i \in 1..Len(queries_for_common_path_this_level) |->
                            queries_for_common_path_this_level[i].value.subquery.value])
    IN  IF failed # {} THEN branches[MinOf(failed)]
        ELSE MergeOk(new_unsized(common_path,
               merge_sub_level(merged_query,
                 [i \in 1..Len(queries_for_common_path_sub_level) |->
                    queries_for_common_path_sub_level[i].value])))

\* ---------------------------------------------------------------------------
\* The merge scenarios: path queries are made with PathQuery::new_unsized or
\* with a limit or an offset, and merged.
\* ---------------------------------------------------------------------------

QueryPaths == UNION {[1..n -> Keys] : n \in 0..2}

\* a key query, another one, and a key query with a subquery
QueryMenu == {Query({"key1"}, FALSE), Query({"key2"}, FALSE), Query({"key1"}, TRUE)}

SizedMenu(query) ==
  {SizedQuery(query, None, None), SizedQuery(query, Some(1), None),
   SizedQuery(query, None, Some(1))}

QueryInit ==
  /\ db = EmptyStore
  /\ txdb = EmptyStore
  /\ tx = "none"
  /\ built = 0
  /\ ops = 0
  /\ clean = TRUE
  /\ ref = NoRef
  /\ chunk = NoChunk
  /\ merk = NoMerk
  /\ spath = NoSubtreePath
  /\ pquery = [op |-> "new", queries |-> <<>>, result |-> MergeOk(None)]
  /\ brange = NoBinaryRange
  /\ sctx = NoContext
  /\ last = NoCall

QueryNew ==
  /\ pquery.op \in {"new", "push"}
  /\ Len(pquery.queries) < MaxQueries
  /\ \E path \in QueryPaths, query \in QueryMenu :
       \E sized \in SizedMenu(query) :
         pquery' = [op |-> "push", queries |-> Append(pquery.queries, PathQuery(path, sized)),
                    result |-> MergeOk(None)]
  /\ UNCHANGED <<db, txdb, tx, built, ops, clean, ref, chunk, merk, spath, brange, sctx, last>>

QueryMerge ==
  /\ pquery.op \in {"new", "push"}
  /\ pquery' = [pquery EXCEPT !.op = "merge", !.result = merge(pquery.queries)]
  /\ UNCHANGED <<db, txdb, tx, built, ops, clean, ref, chunk, merk, spath, brange, sctx, last>>

QueryNext == QueryNew \/ QueryMerge

SpecQuery == QueryInit /\ [][QueryNext]_vars

\* ---------------------------------------------------------------------------
\* The merge claims
\* ---------------------------------------------------------------------------

\* the restriction of merge: the path of one query is a strict prefix of the
\* path of another, or two queries have the same path and one of them has a
\* subquery
SubsetPaths(path_queries) ==
  \E i, j \in 1..Len(path_queries) :
    /\ i # j
    /\ \/ /\ IsPrefix(path_queries[i].path, path_queries[j].path)
          /\ path_queries[i].path # path_queries[j].path
       \/ /\ path_queries[i].path = path_queries[j].path
          /\ \/ has_subquery(path_queries[i].query.query)
             \/ has_subquery(path_queries[j].query.query)

\* C24: merge returns Err(InvalidInput) when the path of one query is a strict
\* prefix of the path of another, and when two queries have the same path and
\* either of them has a subquery.
C24_MergeRejectsSubsetPaths ==
  (pquery.op = "merge" /\ SubsetPaths(pquery.queries))
    => (~pquery.result.ok /\ pquery.result.err = "InvalidInput")

\* the second merge of test_equal_path_merge: the same path, the second query
\* with a subquery, merged into one query
C24_Witness ==
  /\ pquery.op = "merge"
  /\ pquery.queries = <<new_unsized(<<"key1", "key2">>, Query({"key2"}, FALSE)),
                        new_unsized(<<"key1", "key2">>, Query({"key1"}, TRUE))>>
  /\ has_subpaths(pquery.queries)
  /\ pquery.result.ok
  /\ pquery.result.value.path = <<"key1", "key2">>
  /\ pquery.result.value.query.query.items = {"key1", "key2"}

\* ---------------------------------------------------------------------------
\* Binary ranges (merk/src/proofs/chunk/binary_range.rs)
\* ---------------------------------------------------------------------------

\* the largest start and end a range is made with
MaxEnd == 8

LEFT == TRUE
RIGHT == FALSE

BinaryRange(start, end) == [start |-> start, end |-> end]

RangeOk(v) == [ok |-> TRUE, err |-> "", value |-> v]
RangeErr(e) == [ok |-> FALSE, err |-> e, value |-> None]

new(start, end) ==
  IF start > end THEN RangeErr("start value cannot be greater than end value")
  ELSE IF start < 1 THEN RangeErr("minimum start value should be 1 to avoid len overflow")
  ELSE RangeOk(BinaryRange(start, end))

len(range) == range.end - range.start + 1

odd(range) == (len(range) % 2) # 0

\* a which_half that takes the start of the second half for the first
which_half_before(range, value) ==
  IF value < range.start \/ value > range.end THEN None
  ELSE IF odd(range) THEN None
  ELSE LET half_size == len(range) \div 2
           second_half_start == range.start + half_size
       IN  IF value > second_half_start THEN Some(RIGHT) ELSE Some(LEFT)

which_half(range, value) ==
  IF value < range.start \/ value > range.end THEN None
  ELSE IF odd(range) THEN None
  ELSE LET half_size == len(range) \div 2
           second_half_start == range.start + half_size
       IN  IF value >= second_half_start THEN Some(RIGHT) ELSE Some(LEFT)

get_half(range, left) ==
  IF odd(range) THEN RangeErr("cannot break odd range in half")
  ELSE LET half_size == len(range) \div 2
           second_half_start == range.start + half_size
       IN  RangeOk(IF left THEN BinaryRange(range.start, second_half_start - 1)
                   ELSE BinaryRange(second_half_start, range.end))

advance_range_start(range) ==
  IF range.start = range.end
  THEN RangeErr("can't advance start when start is equal to end")
  ELSE RangeOk(<<BinaryRange(range.start + 1, range.end), range.start>>)

\* ---------------------------------------------------------------------------
\* The range scenarios: a range is made with new, then asked for the half of
\* a value, halved and advanced.  The state keeps the range, the operation
\* applied last with its argument and result, the range it was applied to, the
\* range at the last new or get_half and the advances since.
\* ---------------------------------------------------------------------------

RangeInit ==
  /\ db = EmptyStore
  /\ txdb = EmptyStore
  /\ tx = "none"
  /\ built = 0
  /\ ops = 0
  /\ clean = TRUE
  /\ ref = NoRef
  /\ chunk = NoChunk
  /\ merk = NoMerk
  /\ spath = NoSubtreePath
  /\ pquery = NoPathQuery
  /\ \E start \in 0..MaxEnd, end \in 0..MaxEnd :
       brange = [op |-> "new", range |-> BinaryRange(start, end), of |-> BinaryRange(start, end),
                 arg |-> 0, left |-> LEFT, result |-> new(start, end),
                 whole |-> BinaryRange(start, end), advances |-> 0]
  /\ sctx = NoContext
  /\ last = NoCall

\* the ranges the program holds: those new returned Ok for, and what the
\* operations made of them
RangeHeld == brange.op # "none" /\ (brange.op = "new" => brange.result.ok)

RangeWhichHalf ==
  /\ RangeHeld
  /\ \E value \in 0..(MaxEnd + 1) :
       brange' = [brange EXCEPT !.op = "which_half", !.of = brange.range, !.arg = value,
                                !.result = which_half(brange.range, value)]
  /\ UNCHANGED <<db, txdb, tx, built, ops, clean, ref, chunk, merk, spath, pquery, sctx, last>>

RangeGetHalf ==
  /\ RangeHeld
  /\ \E left \in {LEFT, RIGHT} :
       LET half == get_half(brange.range, left) IN
         brange' = [brange EXCEPT !.op = "get_half", !.of = brange.range, !.left = left,
                                  !.result = half,
                                  !.range = IF half.ok THEN half.value ELSE @,
                                  !.whole = IF half.ok THEN half.value ELSE @,
                                  !.advances = IF half.ok THEN 0 ELSE @]
  /\ UNCHANGED <<db, txdb, tx, built, ops, clean, ref, chunk, merk, spath, pquery, sctx, last>>

RangeAdvance ==
  /\ RangeHeld
  /\ LET advanced == advance_range_start(brange.range) IN
       brange' = [brange EXCEPT !.op = "advance_range_start", !.of = brange.range,
                                !.result = advanced,
                                !.range = IF advanced.ok THEN advanced.value[1] ELSE @,
                                !.advances = IF advanced.ok THEN @ + 1 ELSE @]
  /\ UNCHANGED <<db, txdb, tx, built, ops, clean, ref, chunk, merk, spath, pquery, sctx, last>>

RangeNext == RangeWhichHalf \/ RangeGetHalf \/ RangeAdvance

SpecRange == RangeInit /\ [][RangeNext]_vars

\* ---------------------------------------------------------------------------
\* The range claims
\* ---------------------------------------------------------------------------

Within(range, value) == range.start <= value /\ value <= range.end

MaxWrites == 2

ColumnFamilies == {"default", "aux", "roots", "meta"}
Prefixes == {<<"p1">>, <<"p2">>}
UserKeys == {<<"k">>}
StoredValues == {"b"}

\* make_prefixed_key: the prefix, then the key
make_prefixed_key(prefix, key) == prefix \o key

\* the StorageBatch: the deferred operations in the order they were added
StorageBatch_put(batch, cf, key, value) ==
  Append(batch, [op |-> "put", cf |-> cf, key |-> key, value |-> value])

StorageBatch_delete(batch, cf, key) ==
  Append(batch, [op |-> "delete", cf |-> cf, key |-> key, value |-> ""])

StorageBatch_merge(batch, other) == batch \o other

\* the backend: the value, if any, under every key of every column family
EmptyDb == [cf \in ColumnFamilies |-> {}]

Db_get_cf(storage, cf, key) ==
  IF \E row \in storage[cf] : row[1] = key
  THEN Some((CHOOSE row \in storage[cf] : row[1] = key)[2])
  ELSE None

Db_write(storage, o) ==
  [storage EXCEPT ![o.cf] =
     {row \in @ : row[1] # o.key} \cup (IF o.op = "put" THEN {<<o.key, o.value>>} ELSE {})]

\* commit_multi_context_batch: the operations of the batch reach the backend
\* in their order
RECURSIVE commit_multi_context_batch(_, _)
commit_multi_context_batch(storage, batch) ==
  IF batch = <<>> THEN storage
  ELSE commit_multi_context_batch(Db_write(storage, Head(batch)), Tail(batch))

\* the context: the backend, the prefix and the shared batch
PrefixedRocksDbBatchStorageContext(storage, prefix, batch) ==
  [storage |-> storage, prefix |-> prefix, batch |-> batch]

\* put, put_aux, put_root and put_meta, by column family: the shared batch
\* after the call
context_put(ctx, cf, key, value) ==
  StorageBatch_put(ctx.batch, cf, make_prefixed_key(ctx.prefix, key), value)

\* delete, delete_aux, delete_root and delete_meta
context_delete(ctx, cf, key) ==
  StorageBatch_delete(ctx.batch, cf, make_prefixed_key(ctx.prefix, key))

\* the last put of a key in a batch, if it was not deleted since
RECURSIVE Pending(_, _, _)
Pending(batch, cf, key) ==
  IF batch = <<>> THEN None
  ELSE LET o == batch[Len(batch)] IN
       IF o.cf = cf /\ o.key = key
       THEN (IF o.op = "put" THEN Some(o.value) ELSE None)
       ELSE Pending(SubSeq(batch, 1, Len(batch) - 1), cf, key)

\* a get that returns what the shared batch holds for the key
context_get_pending(ctx, cf, key) ==
  IF \E i \in 1..Len(ctx.batch) :
       ctx.batch[i].cf = cf /\ ctx.batch[i].key = make_prefixed_key(ctx.prefix, key)
  THEN Pending(ctx.batch, cf, make_prefixed_key(ctx.prefix, key))
  ELSE Db_get_cf(ctx.storage, cf, make_prefixed_key(ctx.prefix, key))

\* get, get_aux, get_root and get_meta
context_get(ctx, cf, key) ==
  Db_get_cf(ctx.storage, cf, make_prefixed_key(ctx.prefix, key))

\* new_batch: a batch of the context, and a put and a delete added to it
new_batch(ctx) == [prefix |-> ctx.prefix, batch |-> <<>>]

\* commit_batch: the shared batch after the call
context_commit_batch(ctx, part) == StorageBatch_merge(ctx.batch, part.batch)

\* ---------------------------------------------------------------------------
\* The storage scenarios: contexts of two prefixes over one backend share one
\* StorageBatch; they put, delete and get in the four column families, fill
\* and commit a batch of their own, and the shared batch is committed to the
\* backend.  The state keeps the backend, the shared batch, the batch of a
\* context, the call made last with its result, the backend and the shared
\* batch before it, and the backend as the last commit left it.
\* ---------------------------------------------------------------------------

ContextOf(prefix) == PrefixedRocksDbBatchStorageContext(sctx.storage, prefix, sctx.batch)

Called(op, prefix, cf, key, value) ==
  [sctx EXCEPT !.op = op, !.prefix = prefix, !.cf = cf, !.key = key, !.value = value,
               !.result = None, !.before = [storage |-> sctx.storage, batch |-> sctx.batch]]

StorageInit ==
  /\ db = EmptyStore
  /\ txdb = EmptyStore
  /\ tx = "none"
  /\ built = 0
  /\ ops = 0
  /\ clean = TRUE
  /\ ref = NoRef
  /\ chunk = NoChunk
  /\ merk = NoMerk
  /\ spath = NoSubtreePath
  /\ pquery = NoPathQuery
  /\ brange = NoBinaryRange
  /\ \E storage \in {EmptyDb, Db_write(EmptyDb, [op |-> "put", cf |-> "default",
                                                  key |-> <<"p1", "k">>, value |-> "a"])} :
       sctx = [op |-> "open", storage |-> storage, batch |-> <<>>, part |-> None,
               prefix |-> <<>>, cf |-> "", key |-> <<>>, value |-> "", result |-> None,
               before |-> [storage |-> storage, batch |-> <<>>],
               committed |-> storage, writes |-> 0]
  /\ last = NoCall

StoragePut ==
  /\ sctx.op # "none" /\ sctx.writes < MaxWrites
  /\ \E prefix \in Prefixes, cf \in ColumnFamilies, key \in UserKeys, value \in StoredValues :
       sctx' = [Called("put", prefix, cf, key, value) EXCEPT
                  !.batch = context_put(ContextOf(prefix), cf, key, value),
                  !.writes = @ + 1]
  /\ UNCHANGED <<db, txdb, tx, built, ops, clean, ref, chunk, merk, spath, pquery, brange, last>>

StorageDelete ==
  /\ sctx.op # "none" /\ sctx.writes < MaxWrites
  /\ \E prefix \in Prefixes, cf \in ColumnFamilies, key \in UserKeys :
       sctx' = [Called("delete", prefix, cf, key, "") EXCEPT
                  !.batch = context_delete(ContextOf(prefix), cf, key),
                  !.writes = @ + 1]
  /\ UNCHANGED <<db, txdb, tx, built, ops, clean, ref, chunk, merk, spath, pquery, brange, last>>

StorageGet ==
  /\ sctx.op # "none"
  /\ \E prefix \in Prefixes, cf \in ColumnFamilies, key \in UserKeys :
       sctx' = [Called("get", prefix, cf, key, "") EXCEPT
                  !.result = context_get(ContextOf(prefix), cf, key)]
  /\ UNCHANGED <<db, txdb, tx, built, ops, clean, ref, chunk, merk, spath, pquery, brange, last>>

\* new_batch and the operations added to the batch of the context
StorageNewBatch ==
  /\ sctx.op # "none" /\ ~sctx.part.some /\ sctx.writes < MaxWrites
  /\ \E prefix \in Prefixes, cf \in ColumnFamilies, key \in UserKeys, value \in StoredValues,
        deleted \in BOOLEAN :
       LET part == new_batch(ContextOf(prefix))
           filled == IF deleted
                     THEN StorageBatch_delete(part.batch, cf, make_prefixed_key(prefix, key))
                     ELSE StorageBatch_put(part.batch, cf, make_prefixed_key(prefix, key), value)
       IN  sctx' = [Called("new_batch", prefix, cf, key, IF deleted THEN "" ELSE value) EXCEPT
                      !.part = Some([part EXCEPT !.batch = filled]),
                      !.writes = @ + 1]
  /\ UNCHANGED <<db, txdb, tx, built, ops, clean, ref, chunk, merk, spath, pquery, brange, last>>

StorageCommitBatch ==
  /\ sctx.op # "none" /\ sctx.part.some
  /\ sctx' = [Called("commit_batch", sctx.part.value.prefix, "", <<>>, "") EXCEPT
                !.batch = context_commit_batch(ContextOf(sctx.part.value.prefix), sctx.part.value),
                !.part = None]
  /\ UNCHANGED <<db, txdb, tx, built, ops, clean, ref, chunk, merk, spath, pquery, brange, last>>

\* the shared batch is committed to the backend, and a new one is shared
StorageCommit ==
  /\ sctx.op # "none" /\ sctx.batch # <<>>
  /\ LET storage == commit_multi_context_batch(sctx.storage, sctx.batch) IN
       sctx' = [Called("commit_multi_context_batch", <<>>, "", <<>>, "") EXCEPT
                  !.storage = storage, !.batch = <<>>, !.committed = storage]
  /\ UNCHANGED <<db, txdb, tx, built, ops, clean, ref, chunk, merk, spath, pquery, brange, last>>

StorageNext ==
  \/ StoragePut \/ StorageDelete \/ StorageGet
  \/ StorageNewBatch \/ StorageCommitBatch \/ StorageCommit

SpecStorage == StorageInit /\ [][StorageNext]_vars

\* ---------------------------------------------------------------------------
\* The storage claims
\* ---------------------------------------------------------------------------

\* C28: a put or a delete through the context only appends the operation,
\* with the prefixed key, to the shared batch and leaves the backend as it
\* was; a get reads the backend, so it returns what the last commit of the
\* shared batch left under the key and nothing written since; commit_batch
\* only appends the batch of the context to the shared batch.
C28_WritesDeferred ==
  sctx.op # "none" =>
    /\ sctx.op \in {"put", "delete"} =>
         /\ sctx.storage = sctx.before.storage
         /\ Len(sctx.batch) = Len(sctx.before.batch) + 1
         /\ SubSeq(sctx.batch, 1, Len(sctx.before.batch)) = sctx.before.batch
         /\ sctx.batch[Len(sctx.batch)]
              = [op |-> sctx.op, cf |-> sctx.cf, key |-> sctx.prefix \o sctx.key,
                 value |-> sctx.value]
    /\ sctx.op = "get" =>
         /\ sctx.storage = sctx.before.storage /\ sctx.batch = sctx.before.batch
         /\ sctx.result = Db_get_cf(sctx.committed, sctx.cf, sctx.prefix \o sctx.key)
    /\ sctx.op = "commit_batch" =>
         /\ sctx.storage = sctx.before.storage
         /\ Len(sctx.batch) = Len(sctx.before.batch) + 1
         /\ SubSeq(sctx.batch, 1, Len(sctx.before.batch)) = sctx.before.batch
    /\ sctx.op # "commit_multi_context_batch" => sctx.storage = sctx.committed

\* a get of a key whose put waits in the shared batch returns None
C28_Witness ==
  /\ sctx.op = "get" /\ sctx.cf = "roots" /\ sctx.prefix = <<"p2">>
  /\ sctx.batch = <<[op |-> "put", cf |-> "roots", key |-> <<"p2", "k">>, value |-> "b"]>>
  /\ sctx.result = None
  /\ sctx.storage = EmptyDb

\* ---------------------------------------------------------------------------
\* The trunk verification claims
\* ---------------------------------------------------------------------------

\* the tree the ops of a proof build
TrunkOf(proof) == execute(proof, FullNodes \cup AbridgedNodes).tree

\* the nodes on the left-child path of a proof tree, from the root
RECURSIVE LeftPath(_)
LeftPath(tree) ==
  IF ~IsProofTree(tree) THEN <<>> ELSE <<tree.node>> \o LeftPath(tree.left)

\* the nodes of a proof tree down to a depth (the root at depth 0): the
\* depth, whether the node is the leftmost of its depth, and its variant
RECURSIVE Placed(_, _, _, _)
Placed(tree, depth, leftmost, upto) ==
  IF ~IsProofTree(tree) \/ depth > upto THEN {}
  ELSE {<<depth, leftmost, tree.node.t>>}
       \cup Placed(tree.left, depth + 1, leftmost, upto)
       \cup Placed(tree.right, depth + 1, FALSE, upto)

HashOnLeftPath(proof) ==
  \E i \in DOMAIN LeftPath(TrunkOf(proof)) : LeftPath(TrunkOf(proof))[i].t = "Hash"

PathTrunkHeight(proof) == Len(LeftPath(TrunkOf(proof))) \div 2

SmallTrunkNotFull(proof) ==
  /\ PathTrunkHeight(proof) < MIN_TRUNK_HEIGHT
  /\ \E i \in DOMAIN proof : proof[i].op = "Push" /\ proof[i].node.t \notin FullNodes

TrunkIncomplete(proof) ==
  LET trunk_height == PathTrunkHeight(proof) IN
  /\ trunk_height >= MIN_TRUNK_HEIGHT
  /\ \E n \in Placed(TrunkOf(proof), 0, TRUE, trunk_height) :
       \/ n[1] < trunk_height /\ n[3] \notin FullNodes
       \/ n[1] = trunk_height /\ ~n[2] /\ n[3] # "Hash"
       \/ n[1] = trunk_height /\ n[2] /\ n[3] # "KVHash"

\* C25: verify_trunk returns an error for a proof with a Hash node on the
\* left-child path from the root; for a proof whose trunk height, half the
\* length of that path, is below MIN_TRUNK_HEIGHT and that pushes a node
\* other than KV, KVValueHash and KVValueHashFeatureType; and for a proof of
\* at least that trunk height with a node above the depth of the trunk height
\* that is not of these three, a node at that depth, not the leftmost, that
\* is not a Hash, or the leftmost node at that depth that is not a KVHash.
C25_TrunkRejected ==
  (chunk.op = "verify_forged_trunk"
     /\ \/ HashOnLeftPath(chunk.proof)
        \/ SmallTrunkNotFull(chunk.proof)
        \/ TrunkIncomplete(chunk.proof))
    => chunk.err # ""

\* the trunk of a perfect tree with a Hash node at the depth of the trunk
\* height pushed as a KVHash
C25_Witness ==
  /\ chunk.op = "verify_forged_trunk"
  /\ chunk.family = "P" /\ chunk.height = 2 * MIN_TRUNK_HEIGHT
  /\ ~HashOnLeftPath(chunk.proof)
  /\ PathTrunkHeight(chunk.proof) = MIN_TRUNK_HEIGHT
  /\ <<MIN_TRUNK_HEIGHT, FALSE, "KVHash">> \in Placed(TrunkOf(chunk.proof), 0, TRUE, MIN_TRUNK_HEIGHT)
  /\ chunk.err = "OldChunkRestoringError"

\* ---------------------------------------------------------------------------
\* The planner scenarios: the forest is built, and the delete operation for an
\* element is asked for with the operations of a current batch.
\* ---------------------------------------------------------------------------

\* the current batches: none, one operation on the Merk of the element or on
\* the Merk the element is in, or the deletes of both keys of its Merk
BatchMenu(path, key) ==
  {<<>>}
    \cup {<<GroveDbOp(op, at, k)>> :
            op \in {"Delete", "DeleteTree", "Insert"}, at \in {Append(path, key), path},
            k \in Keys}
    \cup {<<GroveDbOp("Delete", Append(path, key), K1),
            GroveDbOp("DeleteTree", Append(path, key), K2)>>}

PlanOptions ==
  {DeleteOptions(allow, returns_error) : allow \in BOOLEAN, returns_error \in BOOLEAN}

\* the planner writes nothing: one call on every forest shows what it returns
DeleteOperation ==
  /\ ops = 0
  /\ tx = "none"
  /\ \A j \in (built + 1)..Len(BuildSlots) : BuildSlots[j].optional
  /\ \E path \in SpinePaths, key \in Keys, options \in PlanOptions, validate \in BOOLEAN :
       \E current_batch_operations \in BatchMenu(path, key) :
         LET planned == delete_operation_for_delete_internal(
                          db, path, key, options, validate, current_batch_operations)
         IN last' = [op |-> "delete_operation_for_delete_internal",
                     args |-> Args(path, key, options, NoStop, NoFault),
                     validate |-> validate, batch |-> current_batch_operations,
                     err |-> planned.err, some |-> planned.some, planned |-> planned.op]
  /\ ops' = ops + 1
  /\ built' = Len(BuildSlots)
  /\ UNCHANGED <<db, txdb, tx, clean, ref, chunk, units>>

PlanNext == Build \/ DeleteOperation

SpecPlan == Init /\ [][PlanNext]_vars

\* ---------------------------------------------------------------------------
\* The planner claims
\* ---------------------------------------------------------------------------

\* the Merk holds no key but those a delete of the batch removes from it, and
\* no other operation of the batch is on it
EmptyForBatch(s, sub, batch) ==
  /\ \A k \in Keys :
       s[sub][k].el.t # "None"
         => \E i \in DOMAIN batch :
              batch[i].op \in {"Delete", "DeleteTree"} /\ batch[i].path = sub /\ batch[i].key = k
  /\ ~\E i \in DOMAIN batch :
        batch[i].op \notin {"Delete", "DeleteTree"} /\ batch[i].path = sub

\* the planner came to the element: the path is not empty, its Merks exist
\* when that is validated, and the element is stored
PlannedElement ==
  /\ last.op = "delete_operation_for_delete_internal"
  /\ last.args.path # <<>>
  /\ last.validate => check_subtree_exists_path_not_found(db, last.args.path) = "Ok"
  /\ get_raw(db, last.args.path, last.args.key).ok

\* C26: for a Tree at (p, k) the planner returns the DeleteTree op exactly
\* when the Merk at p,k holds no key but those the deletes of the current
\* batch remove from it and no other op of the batch is on that Merk;
\* otherwise DeletingNonEmptyTree or Ok(None), by
\* deleting_non_empty_trees_returns_error, when non-empty trees may not be
\* deleted, and NotSupported when they may; for an element that is not a
\* Tree it returns the Delete op.
C26_PlannedDelete ==
  PlannedElement =>
    LET p == last.args.path
        k == last.args.key
        options == last.args.options
    IN IF get_raw(db, p, k).el.t = "Tree"
       THEN IF EmptyForBatch(db, Append(p, k), last.batch)
            THEN last.err = "" /\ last.some /\ last.planned = GroveDbOp("DeleteTree", p, k)
            ELSE IF ~options.allow_deleting_non_empty_trees
            THEN IF options.deleting_non_empty_trees_returns_error
                 THEN last.err = "DeletingNonEmptyTree"
                 ELSE last.err = "" /\ ~last.some
            ELSE last.err = "NotSupported"
       ELSE last.err = "" /\ last.some /\ last.planned = GroveDbOp("Delete", p, k)

\* a Tree whose only key the batch deletes, and a DeleteTree op planned for it
C26_Witness ==
  /\ PlannedElement
  /\ last.args.path = <<K1, K1>> /\ last.args.key = K1
  /\ RawKeys(db, <<K1, K1, K1>>) = {K1}
  /\ last.batch = <<GroveDbOp("Delete", <<K1, K1, K1>>, K1)>>
  /\ ~last.args.options.allow_deleting_non_empty_trees
  /\ last.some /\ last.planned = GroveDbOp("DeleteTree", <<K1, K1>>, K1)

\* ---------------------------------------------------------------------------
\* Destruction of nested Merks on delete
\* ---------------------------------------------------------------------------

\* the paths of the Merk nested at (p, k) and of every Merk below it
NestedPaths(p, k) == {q \in Paths : IsPrefix(Append(p, k), q)}

\* a successful delete of a Tree or SumTree element stored at (p, k)
SubtreeDeleted(s, p, k, call) ==
  /\ call.op \in {"delete", "delete_if_empty_tree"}
  /\ call.err = "" /\ call.val = 1 /\ call.args.fault = NoFault
  /\ call.args.path = p /\ call.args.key = k
  /\ Len(p) < MaxDepth
  /\ Stored(s, p, k) /\ IsSubtreeElement(s[p][k].el)

\* C27: after a successful delete of a Tree or SumTree element at (p, k) no
\* node row remains in storage under the prefix of the Merk nested at p||k or
\* of any Merk nested below it, so a new empty tree inserted at (p, k)
\* afterwards is an empty Merk under which no old descendant can be read.
C27_NestedMerksDestroyed ==
  [][ \A p \in Paths, k \in Keys :
        SubtreeDeleted(View, p, k, last')
          => LET again == insert(View', p, k, Tree(NoFlags))
             IN /\ \A q \in NestedPaths(p, k) : RawKeys(View', q) = {}
                /\ again.err = ""
                /\ \A q \in NestedPaths(p, k) : RawKeys(again.s, q) = {}
                /\ \A q \in NestedPaths(p, k), x \in Keys :
                     ~get(again.s, q, x).ok ]_vars

C27_Witness ==
  /\ last.op = "delete" /\ last.err = "" /\ last.val = 1
  /\ last.args.fault = NoFault
  /\ ~last.args.options.allow_deleting_non_empty_trees
  /\ last.args.path = <<K1>> /\ last.args.key = K1
  /\ get_raw(View, <<K1>>, K1) = Err("PathKeyNotFound")
  /\ RawKeys(View, <<K1, K1>>) # {}

====
